---- MODULE Spec2Model ----
(***************************************************************************)
(* The session runtime of christmas-quiz (app/services/runtime.py): the    *)
(* single RuntimeController, its asyncio tasks (host calls, timer tasks,   *)
(* fast-forward tasks, submit_answer calls) and the rows it keeps in the   *)
(* store.  One action is the code a task runs between two suspension       *)
(* points (an await that really waits: the store, a sleep, the lock).  A   *)
(* store write takes effect in the step that issues it, a store read in    *)
(* the step that resumes from it.  Task.cancel() on a suspended task ends  *)
(* it at that await (the lock it holds is released by `async with`); on    *)
(* the running task it takes effect at the task's next suspension.         *)
(* Scores are counted in half points (Point = 1.0).                        *)
(***************************************************************************)
EXTENDS Integers, Sequences, FiniteSets, TLC

\* ---------------------------------------------------------------- bounds
MaxTime == 3
MaxNexts == 2
Duration == 2
Gap == 1
MaxLiveTime == 6

\* ------------------------------------------------------------- constants
Point == 2
NoTime == -1
NoIndex == -1
Null == -1

Sessions == {"A", "B", "C"}
Players == {"p1", "p2"}
AnswerValues == {0, 1}
HostIds == {"h1"}
TimerIds == {"t1", "t2"}
AdminIds == {"r1"}
TaskIds == HostIds \cup TimerIds \cup AdminIds
SubIds == {"c1", "c2"}

\* ------------------------------------------------------- quiz definitions
\* Question rows (app/models/quiz.py): a closest-value numeric question, a
\* numeric question scored exactly and a multiple-choice question.
Question(qid) ==
    IF qid = "qc"
    THEN [id |-> "qc", answer_type |-> "numeric", scoring_type |-> "closest",
          correct_answer |-> 1, duration_seconds |-> Duration]
    ELSE IF qid = "qn"
    THEN [id |-> "qn", answer_type |-> "numeric", scoring_type |-> "exact",
          correct_answer |-> 1, duration_seconds |-> Duration]
    ELSE [id |-> qid, answer_type |-> "multiple_choice", scoring_type |-> "exact",
          correct_answer |-> 1, duration_seconds |-> Duration]

\* Quiz rows: z1 holds two questions in position order, z2 holds none.
Quiz(zid) ==
    IF zid = "z1"
    THEN [id |-> "z1", gap_seconds |-> Gap, questions |-> <<"qc", "qm">>]
    ELSE [id |-> zid, gap_seconds |-> Gap, questions |-> <<>>]

\* SessionQuiz links in position order: session C has no quiz.
SessionQuizzes(s) == IF s = "A" THEN <<"z1">> ELSE IF s = "B" THEN <<"z2">> ELSE <<>>

NoEntry ==
    [kind |-> "none", pos |-> -1, quiz_index |-> NoIndex, question_index |-> NoIndex,
     duration_seconds |-> 0, gap_seconds |-> 0, question |-> "none"]

IntroEntry(pos, quiz_idx) ==
    [kind |-> "quiz_intro", pos |-> pos, quiz_index |-> quiz_idx,
     question_index |-> NoIndex, duration_seconds |-> 0, gap_seconds |-> 0,
     question |-> "none"]

QuestionEntry(pos, quiz_idx, question_idx, zid) ==
    [kind |-> "question", pos |-> pos, quiz_index |-> quiz_idx,
     question_index |-> question_idx,
     duration_seconds |-> Question(Quiz(zid).questions[question_idx + 1]).duration_seconds,
     gap_seconds |-> Quiz(zid).gap_seconds,
     question |-> Quiz(zid).questions[question_idx + 1]]

\* The entries one quiz contributes: its intro, then one entry per question.
QuizEntries(base, quiz_idx, zid) ==
    <<IntroEntry(base, quiz_idx)>> \o
    [i \in 1..Len(Quiz(zid).questions) |-> QuestionEntry(base + i, quiz_idx, i - 1, zid)]

RECURSIVE BuildFrom(_, _, _)
BuildFrom(links, quiz_idx, entries) ==
    IF links = <<>> THEN entries
    ELSE BuildFrom(Tail(links), quiz_idx + 1,
                   entries \o QuizEntries(Len(entries), quiz_idx, Head(links)))

_build_timeline(s) == BuildFrom(SessionQuizzes(s), 0, <<>>)

\* ------------------------------------------------------------ dictionaries
Put(f, k, v) == [x \in DOMAIN f \cup {k} |-> IF x = k THEN v ELSE f[x]]
Pop(f, k) == [x \in DOMAIN f \ {k} |-> f[x]]
EmptyDict == <<>>
Abs(x) == IF x < 0 THEN -x ELSE x
Max(a, b) == IF a > b THEN a ELSE b
Min(a, b) == IF a < b THEN a ELSE b
\* A Python list index: timeline[i], where a negative i counts from the end.
At(list, i) == IF i < 0 THEN list[Len(list) + i + 1] ELSE list[i + 1]

VARIABLES
    now,                 \* the clock (utc_now)
    active_session_id, timeline, current_index, current_entry,
    current_start, current_end, current_finalized, timer_task,
    lock, lockq,         \* asyncio.Lock: its holder and its FIFO of waiters
    task,                \* host calls and timer / fast-forward tasks
    sub,                 \* submit_answer calls in flight, one per connection
    players, answers, answer_results, answer_values, closest_results,
    scores_revealed,
    player_sockets,      \* the observer sinks of each session, in the order added
    db_sessions, db_players, db_answers, db_snapshots,
    last,                \* the last submit_answer call that returned False
    obs,                 \* what the properties remember of the run so far
    budget               \* calls the environment may still make

ctlVars == <<active_session_id, timeline, current_index, current_entry,
             current_start, current_end, current_finalized>>
schVars == <<timer_task, lock, lockq, task>>
memVars == <<players, answers, answer_results, answer_values, closest_results,
             scores_revealed>>
dbVars == <<db_sessions, db_players, db_answers, db_snapshots>>
vars == <<now, ctlVars, schVars, sub, memVars, player_sockets, dbVars, last, obs, budget>>

IdleTask ==
    [pc |-> "idle", op |-> "none", sid |-> "none", manual |-> FALSE,
     entry |-> NoEntry, wake |-> 0, gap |-> 0, cont |-> "none", fq |-> "none",
     trig |-> NoIndex, caller |-> "none", bi |-> 0, drop |-> {}, sent |-> {}]

IdleSub ==
    [pc |-> "idle", sid |-> "none", pid |-> "none", answer |-> Null,
     question |-> "none", is_correct |-> FALSE, delta |-> 0, stale |-> FALSE]

DraftSession ==
    [status |-> "draft", manual_override |-> FALSE, active_quiz_index |-> NoIndex,
     active_question_index |-> NoIndex, finished_at |-> NoTime]

\* What the controller held when its process stopped.
Held ==
    [sid |-> active_session_id,
     current_index |-> current_index,
     current_start |-> current_start,
     current_end |-> current_end,
     answered |-> IF active_session_id \in DOMAIN answers
                  THEN answers[active_session_id] ELSE {},
     answer_values |-> IF active_session_id \in DOMAIN answer_values
                       THEN answer_values[active_session_id] ELSE EmptyDict,
     rows |-> Len(db_answers),
     quiet |-> /\ \A t \in TaskIds : task[t].pc \in {"idle", "sleep", "gap"}
               /\ \A c \in SubIds : sub[c].pc = "idle"]

\* Nothing remembered yet: no timer has returned on manual_override (the
\* index of the stage it was started for), no in-memory state was lost, no
\* question of a session has been finalized, no active session has been
\* cancelled (with no start or resume running) since the last start or resume.
NoObs ==
    [manual_return |-> NoIndex, lost |-> FALSE, finalized |-> {}, cancelled |-> "none",
     before |-> [sid |-> "none", current_index |-> -1, current_start |-> NoTime,
                 current_end |-> NoTime, answered |-> {}, answer_values |-> EmptyDict,
                 rows |-> 0, quiet |-> TRUE]]

\* No call observed yet.
NoCall == [op |-> "none", sid |-> "none", pid |-> "none", reason |-> "none"]

\* The calls the environment makes in a run: how many of each kind.
Calls(starts, nexts, manuals, resumes, resets, rejects, clock) ==
    [start |-> starts, force_next |-> nexts, set_manual |-> manuals,
     resume |-> resumes, reset |-> resets, reject |-> rejects, clock |-> clock]

\* RuntimeController.__init__ and an empty store holding the sessions.
InitWith(calls) ==
    /\ now = 0
    /\ active_session_id = "none"
    /\ timeline = <<>>
    /\ current_index = -1
    /\ current_entry = NoEntry
    /\ current_start = NoTime
    /\ current_end = NoTime
    /\ current_finalized = FALSE
    /\ timer_task = "none"
    /\ lock = "none"
    /\ lockq = <<>>
    /\ task = [t \in TaskIds |-> IdleTask]
    /\ sub = [c \in SubIds |-> IdleSub]
    /\ players = EmptyDict
    /\ answers = EmptyDict
    /\ answer_results = EmptyDict
    /\ answer_values = EmptyDict
    /\ closest_results = EmptyDict
    /\ scores_revealed = EmptyDict
    /\ player_sockets = EmptyDict
    /\ db_sessions = [s \in Sessions |-> DraftSession]
    /\ db_players = EmptyDict
    /\ db_answers = <<>>
    /\ db_snapshots = EmptyDict
    /\ last = NoCall
    /\ obs = NoObs
    /\ budget = calls

Init == InitWith(Calls(1, MaxNexts, 0, 0, 0, 0, MaxTime))

\* The clock advances; a sleeping task may wake any time after its deadline.
Tick ==
    /\ now < budget.clock
    /\ now' = now + 1
    /\ UNCHANGED <<player_sockets, ctlVars, schVars, sub, memVars, dbVars, last, obs, budget>>

\* ------------------------------------------------------- tasks and the lock
Sch == [task |-> task, lock |-> lock, lockq |-> lockq, timer_task |-> timer_task]

QRemove(q, t) == SelectSeq(q, LAMBDA x: x # t)

\* `async with self.lock`: taken at once when free with nobody waiting,
\* else the caller joins the FIFO of waiters.
Acquire(S, t) ==
    IF S.lock = "none" /\ S.lockq = <<>>
    THEN [S EXCEPT !.lock = t, !.task[t].pc = "locked"]
    ELSE [S EXCEPT !.lockq = Append(@, t), !.task[t].pc = "wait_lock"]

\* Leaving `async with self.lock`: the first waiter becomes the holder.
Release(S, t) ==
    IF S.lock # t THEN S
    ELSE IF S.lockq = <<>> THEN [S EXCEPT !.lock = "none"]
    ELSE [S EXCEPT !.lock = Head(S.lockq), !.lockq = Tail(S.lockq),
                   !.task[Head(S.lockq)].pc = "locked"]

\* The task returns or raises: its lock is released and its slot is free.
EndOp(S, t) == [Release(S, t) EXCEPT !.task[t] = IdleTask]

\* Task.cancel() on another (suspended) task; nothing on a finished one.
Kill(S, t) ==
    IF t = "none" \/ S.task[t].pc = "idle" THEN S
    ELSE EndOp([S EXCEPT !.lockq = QRemove(@, t)], t)

\* `self.timer_task.cancel()` left out: the previous task keeps running.
timerNotCancelled(S, self) == S

\* `self.timer_task.cancel()` run by task `self`: a task that cancels itself
\* keeps running up to its next suspension.
CancelTimer(S, self) == IF S.timer_task = self THEN S ELSE Kill(S, S.timer_task)

FreeTimer(S) ==
    IF S.task["t1"].pc = "idle" THEN "t1"
    ELSE CHOOSE t \in TimerIds \ {"t1"} : S.task[t].pc = "idle"

\* asyncio.create_task(timer_loop()) / create_task(gap_then_next()); the new
\* task is remembered with the stage it was created for.
Spawn(S, pc, sid, entry, wake, gap) ==
    LET t == FreeTimer(S) IN
    [S EXCEPT !.task[t] = [IdleTask EXCEPT !.pc = pc, !.op = pc, !.sid = sid,
                                           !.entry = entry, !.wake = wake,
                                           !.gap = gap, !.trig = entry.pos],
              !.timer_task = t]

\* _start_timer(session, entry), run by task `self` at time `now`.
_start_timer(S, self, sid, entry) ==
    IF entry.kind # "question"
    THEN [CancelTimer(S, self) EXCEPT !.timer_task = "none"]
    ELSE Spawn(CancelTimer(S, self), "sleep", sid, entry,
               now + entry.duration_seconds, entry.gap_seconds)

SetSch(S) ==
    /\ task' = S.task
    /\ lock' = S.lock
    /\ lockq' = S.lockq
    /\ timer_task' = S.timer_task

\* ------------------------------------------------------------------ players
\* register_player(session_id, name, player_id) with a client-chosen id.
register_player(s, p) ==
    /\ ~(s \in DOMAIN players /\ p \in DOMAIN players[s] /\ players[s][p].connected)
    /\ LET session_players == IF s \in DOMAIN players THEN players[s] ELSE EmptyDict
           player == IF p \in DOMAIN session_players
                     THEN [session_players[p] EXCEPT !.connected = TRUE]
                     ELSE [score |-> 0, connected |-> TRUE]
       IN /\ players' = Put(players, s, Put(session_players, p, player))
          /\ db_players' =
               IF p \in DOMAIN db_players
               THEN [db_players EXCEPT ![p].score = player.score, ![p].connected = TRUE]
               ELSE Put(db_players, p,
                        [session_id |-> s, score |-> player.score, connected |-> TRUE])
    /\ UNCHANGED <<now, player_sockets, ctlVars, schVars, sub, answers, answer_results, answer_values,
                   closest_results, scores_revealed, db_sessions, db_answers,
                   db_snapshots, last, obs, budget>>

\* disconnect_player that also drops the player's answer from the caches.
disconnectDropsAnswer(s, p) ==
    /\ s \in DOMAIN players
    /\ p \in DOMAIN players[s]
    /\ players[s][p].connected
    /\ players' = [players EXCEPT ![s][p].connected = FALSE]
    /\ db_players' = IF p \in DOMAIN db_players
                     THEN [db_players EXCEPT ![p].connected = FALSE]
                     ELSE db_players
    /\ answers' = IF s \in DOMAIN answers
                  THEN [answers EXCEPT ![s] = @ \ {p}] ELSE answers
    /\ UNCHANGED <<now, player_sockets, ctlVars, schVars, sub, answer_results, answer_values,
                   closest_results, scores_revealed, db_sessions, db_answers,
                   db_snapshots, last, obs, budget>>

\* disconnect_player(session_id, player_id)
disconnect_player(s, p) ==
    /\ s \in DOMAIN players
    /\ p \in DOMAIN players[s]
    /\ players[s][p].connected
    /\ players' = [players EXCEPT ![s][p].connected = FALSE]
    /\ db_players' = IF p \in DOMAIN db_players
                     THEN [db_players EXCEPT ![p].connected = FALSE]
                     ELSE db_players
    /\ UNCHANGED <<now, player_sockets, ctlVars, schVars, sub, answers, answer_results, answer_values,
                   closest_results, scores_revealed, db_sessions, db_answers,
                   db_snapshots, last, obs, budget>>

\* ------------------------------------------- closest-value finalization
\* _finalize_question_scores: the early returns before the store is read.
FinalizeApplies(q) ==
    /\ \/ Question(q).scoring_type = "closest"
       \/ Question(q).answer_type = "numeric" /\ Question(q).scoring_type = ""
    /\ Question(q).correct_answer # Null

\* The rows of (session, question), by their position in the table.
AnswerRows(s, q) ==
    SelectSeq([i \in 1..Len(db_answers) |-> i],
              LAMBDA i: db_answers[i].session_id = s /\ db_answers[i].question_id = q)

\* float(ans.answer) fails on null and on text: those rows are skipped.
ParsedRows(s, q) == SelectSeq(AnswerRows(s, q), LAMBDA i: db_answers[i].answer # Null)

Diff(i, q) == Abs(db_answers[i].answer - Question(q).correct_answer)

SeqRange(sq) == {sq[i] : i \in 1..Len(sq)}
MinDiff(parsed, q) ==
    CHOOSE d \in {Diff(i, q) : i \in SeqRange(parsed)} :
        \A i \in SeqRange(parsed) : d <= Diff(i, q)
MaxDiff(parsed, q) ==
    CHOOSE d \in {Diff(i, q) : i \in SeqRange(parsed)} :
        \A i \in SeqRange(parsed) : d >= Diff(i, q)

\* base_score, the exact bonus and the clamp to [0, 1.5], in half points.
ClosestScore(diff, min_diff, range_diff) ==
    LET base_score == IF range_diff > 0
                      THEN Point - (Point * (diff - min_diff)) \div range_diff
                      ELSE Point
        score == IF diff = 0 THEN base_score + Point \div 2 ELSE base_score
    IN Max(0, Min((3 * Point) \div 2, score))

\* closest_list.sort(key=distance): a stable sort.
RECURSIVE SortByDistance(_, _, _)
SortByDistance(parsed, q, sorted) ==
    IF parsed = <<>> THEN sorted
    ELSE LET i == Head(parsed)
             before == SelectSeq(sorted, LAMBDA j: Diff(j, q) <= Diff(i, q))
             after == SelectSeq(sorted, LAMBDA j: Diff(j, q) > Diff(i, q))
         IN SortByDistance(Tail(parsed), q, before \o <<i>> \o after)

BoolStr(b) == IF b THEN "true" ELSE "false"

\* delta = next((d for pid, d, _ in updates if pid == player_id), 0)
DeltaOf(p, parsed, q) ==
    LET mine == SelectSeq(parsed, LAMBDA j: db_answers[j].player_id = p)
        min_diff == MinDiff(parsed, q)
    IN IF mine = <<>> THEN 0
       ELSE ClosestScore(Diff(Head(mine), q), min_diff, MaxDiff(parsed, q) - min_diff)

\* The loop over closest_list: one pass per ranked row.
RECURSIVE ApplyScores(_, _, _, _, _)
ApplyScores(list, parsed, s, q, st) ==
    IF list = <<>> THEN st
    ELSE LET i == Head(list)
             p == db_answers[i].player_id
             delta == DeltaOf(p, parsed, q)
             is_exact == Diff(i, q) = 0
             in_memory == s \in DOMAIN st.players /\ p \in DOMAIN st.players[s]
             results == IF s \in DOMAIN st.answer_results
                        THEN st.answer_results[s] ELSE EmptyDict
         IN ApplyScores(Tail(list), parsed, s, q,
              [players |-> IF in_memory
                           THEN [st.players EXCEPT ![s][p].score = @ + delta]
                           ELSE st.players,
               db_players |-> IF p \in DOMAIN st.db_players
                              THEN [st.db_players EXCEPT ![p].score = @ + delta]
                              ELSE st.db_players,
               db_answers |-> [k \in 1..Len(st.db_answers) |->
                                 IF k \in SeqRange(AnswerRows(s, q))
                                    /\ st.db_answers[k].player_id = p
                                 THEN [st.db_answers[k] EXCEPT
                                         !.is_correct = (is_exact \/ delta > 0)]
                                 ELSE st.db_answers[k]],
               answer_results |-> Put(st.answer_results, s,
                                      Put(results, p, BoolStr(is_exact)))])

ClosestList(s, q) == SortByDistance(ParsedRows(s, q), q, <<>>)

ClosestEntry(i, q) ==
    [player_id |-> db_answers[i].player_id, answer |-> db_answers[i].answer,
     distance |-> Diff(i, q), is_exact |-> (Diff(i, q) = 0)]

\* _finalize_question_scores(session_id, question) after its rows are read.
_finalize_question_scores(s, q) ==
    LET parsed == ParsedRows(s, q)
        st == ApplyScores(ClosestList(s, q), parsed, s, q,
                          [players |-> players, db_players |-> db_players,
                           db_answers |-> db_answers,
                           answer_results |-> answer_results])
    IN IF parsed = <<>>
       THEN UNCHANGED <<players, db_players, db_answers, answer_results,
                        closest_results>>
       ELSE /\ players' = st.players
            /\ db_players' = st.db_players
            /\ db_answers' = st.db_answers
            /\ answer_results' = st.answer_results
            /\ closest_results' =
                 Put(closest_results, s,
                     [k \in 1..Len(ClosestList(s, q)) |->
                        ClosestEntry(ClosestList(s, q)[k], q)])

\* ------------------------------------------------------ the host's calls
\* A call enters `async with self.lock`; `op` names the method it runs.
HostCall(t, op, s, manual) ==
    /\ task[t].pc = "idle"
    /\ budget[op] > 0
    /\ budget' = [budget EXCEPT ![op] = @ - 1]
    /\ SetSch(Acquire([Sch EXCEPT !.task[t] =
                         [IdleTask EXCEPT !.op = op, !.sid = s, !.manual = manual,
                                          !.trig = current_entry.pos]], t))
    /\ UNCHANGED <<now, player_sockets, ctlVars, sub, memVars, dbVars, last, obs>>

start(t, s) == HostCall(t, "start", s, FALSE)
force_next(t, s) == HostCall(t, "force_next", s, FALSE)
set_manual(t, s, manual) == HostCall(t, "set_manual", s, manual)
resume(t, s) == HostCall(t, "resume", s, FALSE)

\* force_next called from inside a task (timer_loop, gap_then_next,
\* set_manual, resume): the caller waits for the lock like any other, also
\* when it is the one that holds it (asyncio.Lock is not reentrant).
CallForceNext(S, t) ==
    Acquire([S EXCEPT !.task[t].op = "force_next", !.task[t].caller = S.task[t].op], t)

\* start, with the lock held and the session and its timeline read.
StartLoad(t) ==
    /\ task[t].pc = "locked"
    /\ task[t].op = "start"
    /\ timeline' = _build_timeline(task[t].sid)
    /\ IF timeline' = <<>>
       THEN /\ SetSch(EndOp(Sch, t))
            /\ UNCHANGED <<active_session_id, current_index, scores_revealed,
                           db_sessions, obs>>
       ELSE /\ active_session_id' = task[t].sid
            /\ current_index' = -1
            /\ scores_revealed' = Put(scores_revealed, task[t].sid, FALSE)
            /\ db_sessions' = [db_sessions EXCEPT ![task[t].sid].status = "live"]
            /\ SetSch([Sch EXCEPT !.task[t].pc = "adv_enter"])
            /\ obs' = [obs EXCEPT !.cancelled = "none"]
    /\ UNCHANGED <<now, player_sockets, current_entry, current_start, current_end, current_finalized,
                   sub, players, answers, answer_results, answer_values,
                   closest_results, db_players, db_answers, db_snapshots, last, budget>>

\* force_next, with the lock held: the active-session check.
ForceNextCheck(t) ==
    /\ task[t].pc = "locked"
    /\ task[t].op = "force_next"
    /\ IF active_session_id # task[t].sid
       THEN SetSch(EndOp(Sch, t))
       ELSE SetSch([Sch EXCEPT !.task[t].pc = "adv_enter"])
    /\ UNCHANGED <<now, player_sockets, ctlVars, sub, memVars, dbVars, last, obs, budget>>

\* _advance from `self.current_index += 1` to the commit that follows.
Increment(t) ==
    LET sid == task[t].sid
        idx == current_index + 1
    IN /\ current_index' = idx
       /\ IF idx >= Len(timeline)
          THEN /\ db_sessions' = [db_sessions EXCEPT
                                    ![sid].status = "finished",
                                    ![sid].finished_at = now,
                                    ![sid].active_quiz_index = NoIndex,
                                    ![sid].active_question_index = NoIndex]
               /\ SetSch([Sch EXCEPT !.task[t].pc = "adv_fin"])
          ELSE /\ db_sessions' = [db_sessions EXCEPT
                                    ![sid].active_quiz_index = At(timeline, idx).quiz_index,
                                    ![sid].active_question_index =
                                        At(timeline, idx).question_index]
               /\ SetSch([Sch EXCEPT !.task[t].pc = "adv_set",
                                     !.task[t].entry = At(timeline, idx)])
       /\ UNCHANGED <<now, player_sockets, active_session_id, timeline, current_entry, current_start,
                      current_end, current_finalized, sub, memVars, db_players,
                      db_answers, db_snapshots, last, obs, budget>>

\* _advance, first lines: finalize the question being left unless it is
\* marked finalized; the finalization suspends to read the answers.
AdvanceEnter(t) ==
    /\ task[t].pc = "adv_enter"
    /\ IF /\ current_entry.kind = "question"
          /\ ~current_finalized
          /\ FinalizeApplies(current_entry.question)
       THEN /\ SetSch([Sch EXCEPT !.task[t].pc = "fin_read",
                                  !.task[t].cont = "adv_inc",
                                  !.task[t].fq = current_entry.question])
            /\ UNCHANGED <<now, player_sockets, ctlVars, sub, memVars, dbVars, last, obs, budget>>
       ELSE Increment(t)

\* _finalize_question_scores resumes with the rows and applies the scores.
Finalize(t) ==
    /\ task[t].pc = "fin_read"
    /\ _finalize_question_scores(task[t].sid, task[t].fq)
    /\ SetSch([Sch EXCEPT !.task[t].pc = task[t].cont])
    /\ obs' = [obs EXCEPT !.finalized = @ \cup {<<task[t].sid, task[t].fq>>}]
    /\ UNCHANGED <<now, player_sockets, ctlVars, sub, answers, answer_values, scores_revealed,
                   db_sessions, db_snapshots, last, budget>>

AdvanceIncrement(t) ==
    /\ task[t].pc = "adv_inc"
    /\ Increment(t)

\* ---------------------------------------------------------- broadcast_state
Sinks == {"w1", "w2"}
Range(q) == {q[i] : i \in 1..Len(q)}
SocketsOf(s) == IF s \in DOMAIN player_sockets THEN player_sockets[s] ELSE <<>>

\* add_player_socket: the sink of a new connection joins the session's list.
add_player_socket(s, w) ==
    /\ \A x \in DOMAIN player_sockets : w \notin Range(player_sockets[x])
    /\ player_sockets' = Put(player_sockets, s, Append(SocketsOf(s), w))
    /\ UNCHANGED <<now, ctlVars, schVars, sub, memVars, dbVars, last, obs, budget>>

\* remove_player_socket, as a function of the lists.
remove_player_socket(socks, s, w) ==
    IF s \notin DOMAIN socks \/ socks[s] = <<>> THEN socks
    ELSE [socks EXCEPT ![s] = SelectSeq(@, LAMBDA x: x # w)]

RECURSIVE RemoveAll(_, _, _)
RemoveAll(socks, s, ws) ==
    IF ws = {} THEN socks
    ELSE LET w == CHOOSE x \in ws : TRUE
         IN RemoveAll(remove_player_socket(socks, s, w), s, ws \ {w})

\* Whether broadcast_state(s), awaited by task t, goes past its first return:
\* the session has sinks.  A task that has cancelled itself ends at the
\* first suspension, the read of the state.
Broadcasts(t, s) == SocketsOf(s) # <<>> /\ timer_task # t

\* broadcast_state entered by task t, which goes on at `cont` afterwards.
StartBroadcast(S, t, cont) ==
    [S EXCEPT !.task[t].pc = "bc_send", !.task[t].cont = cont, !.task[t].bi = 1,
              !.task[t].drop = {}, !.task[t].sent = {}]

MarkStale(s) == [c \in SubIds |-> IF sub[c].pc # "idle" /\ sub[c].sid = s
                                  THEN [sub[c] EXCEPT !.stale = TRUE] ELSE sub[c]]

\* _advance after the commit: the new stage becomes current and its timer is
\* started; with no sink to broadcast to, the snapshot is written and the
\* call returns, else the broadcast comes first.
AdvanceSet(t) ==
    LET sid == task[t].sid
        entry == task[t].entry
        is_question == entry.kind = "question"
        end == IF is_question THEN now + entry.duration_seconds ELSE NoTime
    IN /\ task[t].pc = "adv_set"
       /\ current_entry' = entry
       /\ current_start' = now
       /\ current_end' = end
       /\ current_finalized' = FALSE
       /\ IF is_question
          THEN /\ answers' = Put(answers, sid, {})
               /\ answer_results' = Put(answer_results, sid, EmptyDict)
               /\ answer_values' = Put(answer_values, sid, EmptyDict)
               /\ closest_results' = Put(closest_results, sid, <<>>)
               /\ sub' = MarkStale(sid)
          ELSE UNCHANGED <<answers, answer_results, answer_values, closest_results, sub>>
       /\ IF Broadcasts(t, sid)
          THEN /\ SetSch(StartBroadcast(_start_timer(Sch, t, sid, entry), t, "adv_snap"))
               /\ UNCHANGED db_snapshots
          ELSE /\ SetSch(EndOp(_start_timer(Sch, t, sid, entry), t))
               /\ db_snapshots' =
                    IF timer_task = t THEN db_snapshots
                    ELSE Put(db_snapshots, sid,
                             [current_index |-> current_index,
                              current_entry_kind |-> entry.kind,
                              active_quiz_index |-> entry.quiz_index,
                              active_question_index |-> entry.question_index,
                              current_start |-> now, current_end |-> end])
       /\ UNCHANGED <<now, player_sockets, active_session_id, timeline, current_index, players,
                      scores_revealed, db_sessions, db_players, db_answers, last, obs, budget>>

\* _advance past the end of the timeline, after the commit: the session is
\* no longer active, the timer is cancelled and the end is broadcast.
AdvanceFinish(t) ==
    /\ task[t].pc = "adv_fin"
    /\ active_session_id' = "none"
    /\ IF Broadcasts(t, task[t].sid)
       THEN SetSch(StartBroadcast([CancelTimer(Sch, t) EXCEPT !.timer_task = "none"],
                                  t, "return"))
       ELSE SetSch(EndOp([CancelTimer(Sch, t) EXCEPT !.timer_task = "none"], t))
    /\ UNCHANGED <<now, player_sockets, timeline, current_index, current_entry, current_start,
                   current_end, current_finalized, sub, memVars, dbVars, last, obs, budget>>

\* ------------------------------------------- reveal, timers, fast-forward
\* What a task does once _reveal_current_question has returned.
AfterReveal(S, t) ==
    IF S.task[t].op = "sleep" \/ (S.task[t].op = "ff_start" /\ S.task[t].gap > 0)
    THEN [S EXCEPT !.task[t].pc = "gap", !.task[t].wake = now + S.task[t].gap]
    ELSE CallForceNext(S, t)

\* _reveal_current_question at `await self.broadcast_state(session.id)`.
RevealBroadcast(S, t) ==
    IF SocketsOf(S.task[t].sid) # <<>> THEN StartBroadcast(S, t, "after_reveal")
    ELSE AfterReveal(S, t)

\* One `await ws.send_json(...)` of the loop of broadcast_state: the send
\* succeeds, raises, or never completes.  After the last sink the failed
\* ones are removed and the caller (_advance or
\* _reveal_current_question) goes on.
BroadcastSend(t) ==
    LET s == task[t].sid
        socks == SocketsOf(s)
        w == socks[task[t].bi]
    IN /\ task[t].pc = "bc_send"
       /\ task[t].bi <= Len(socks)
       /\ \E outcome \in {"sent", "raised", "pending"} :
            LET drop == IF outcome = "raised" THEN task[t].drop \cup {w} ELSE task[t].drop
                sent == IF outcome = "sent" THEN task[t].sent \cup {w} ELSE task[t].sent
            IN IF outcome = "pending"
               THEN /\ SetSch([Sch EXCEPT !.task[t].pc = "bc_wait"])
                    /\ UNCHANGED player_sockets
               ELSE IF task[t].bi < Len(socks)
               THEN /\ SetSch([Sch EXCEPT !.task[t].bi = @ + 1, !.task[t].drop = drop,
                                           !.task[t].sent = sent])
                    /\ UNCHANGED player_sockets
               ELSE /\ player_sockets' = RemoveAll(player_sockets, s, drop)
                    /\ IF task[t].cont = "return"
                       THEN SetSch(EndOp(Sch, t))
                       ELSE IF task[t].cont = "after_reveal"
                       THEN SetSch(AfterReveal([Sch EXCEPT !.task[t].bi = 0,
                                                           !.task[t].drop = {},
                                                           !.task[t].sent = {}], t))
                       ELSE SetSch([Sch EXCEPT !.task[t].pc = task[t].cont,
                                               !.task[t].drop = drop, !.task[t].sent = sent])
       /\ UNCHANGED <<now, ctlVars, sub, memVars, dbVars, last, obs, budget>>

\* _advance after its broadcast: _persist_snapshot, then the call returns.
AdvanceSnapshot(t) ==
    /\ task[t].pc = "adv_snap"
    /\ db_snapshots' = Put(db_snapshots, task[t].sid,
                           [current_index |-> current_index,
                            current_entry_kind |-> task[t].entry.kind,
                            active_quiz_index |-> task[t].entry.quiz_index,
                            active_question_index |-> task[t].entry.question_index,
                            current_start |-> current_start,
                            current_end |-> current_end])
    /\ SetSch(EndOp(Sch, t))
    /\ UNCHANGED <<now, player_sockets, ctlVars, sub, memVars, db_sessions, db_players,
                   db_answers, last, obs, budget>>

\* _reveal_current_question(session, entry) up to its first suspension.
Reveal(S, t, entry) ==
    IF entry.kind # "question"
    THEN /\ UNCHANGED <<current_finalized, current_end>>
         /\ SetSch(AfterReveal(S, t))
    ELSE IF ~current_finalized /\ FinalizeApplies(entry.question)
    THEN /\ UNCHANGED <<current_finalized, current_end>>
         /\ SetSch([S EXCEPT !.task[t].pc = "fin_read", !.task[t].cont = "rev_set",
                             !.task[t].fq = entry.question])
    ELSE /\ current_finalized' = TRUE
         /\ current_end' = now
         /\ SetSch(RevealBroadcast(S, t))

\* _reveal_current_question after the finalization it awaited.
RevealSet(t) ==
    /\ task[t].pc = "rev_set"
    /\ current_finalized' = TRUE
    /\ current_end' = now
    /\ SetSch(RevealBroadcast(Sch, t))
    /\ UNCHANGED <<now, player_sockets, active_session_id, timeline, current_index, current_entry,
                   current_start, sub, memVars, dbVars, last, obs, budget>>

\* timer_loop wakes from sleep(duration_seconds) and re-reads the session.
TimerWake(t) ==
    /\ task[t].pc = "sleep"
    /\ now >= task[t].wake
    /\ IF db_sessions[task[t].sid].manual_override
       THEN /\ SetSch(EndOp(Sch, t))
            /\ obs' = [obs EXCEPT !.manual_return = task[t].entry.pos]
            /\ UNCHANGED <<current_finalized, current_end>>
       ELSE /\ Reveal(Sch, t, task[t].entry)
            /\ UNCHANGED obs
    /\ UNCHANGED <<now, player_sockets, active_session_id, timeline, current_index, current_entry,
                   current_start, sub, memVars, dbVars, last, budget>>

\* timer_loop / gap_then_next wake from sleep(gap_seconds): force_next.
GapWake(t) ==
    /\ task[t].pc = "gap"
    /\ now >= task[t].wake
    /\ SetSch(CallForceNext(Sch, t))
    /\ UNCHANGED <<now, player_sockets, ctlVars, sub, memVars, dbVars, last, obs, budget>>

\* gap_then_next resumes with the session object and reveals whatever entry
\* is current by then.
FastForwardStart(t) ==
    /\ task[t].pc = "ff_start"
    /\ Reveal(Sch, t, current_entry)
    /\ UNCHANGED <<now, player_sockets, active_session_id, timeline, current_index, current_entry,
                   current_start, sub, memVars, dbVars, last, obs, budget>>

\* ------------------------------------------------------------- set_manual
remaining_seconds ==
    IF current_end = NoTime \/ current_start = NoTime THEN 0
    ELSE Max(0, current_end - now)

\* set_manual with the lock held: the flag is written and committed.
SetManualWrite(t) ==
    /\ task[t].pc = "locked"
    /\ task[t].op = "set_manual"
    /\ db_sessions' = [db_sessions EXCEPT ![task[t].sid].manual_override = task[t].manual]
    /\ SetSch([Sch EXCEPT !.task[t].pc = "sm_post"])
    /\ UNCHANGED <<now, player_sockets, ctlVars, sub, memVars, db_players, db_answers, db_snapshots,
                   last, obs, budget>>

\* set_manual after the commit: on clearing the flag the timer is restarted
\* with the remaining time, or force_next is called when none remains.
SetManualPost(t) ==
    /\ task[t].pc = "sm_post"
    /\ IF ~task[t].manual /\ active_session_id = task[t].sid /\ current_entry.kind # "none"
       THEN IF remaining_seconds <= 0
            THEN SetSch(CallForceNext([Sch EXCEPT !.task[t].trig = current_entry.pos], t))
            ELSE SetSch(EndOp(_start_timer(Sch, t, task[t].sid,
                                 [current_entry EXCEPT !.duration_seconds = remaining_seconds]),
                              t))
       ELSE SetSch(EndOp(Sch, t))
    /\ UNCHANGED <<now, player_sockets, ctlVars, sub, memVars, dbVars, last, obs, budget>>

\* ----------------------------------------------------------------- resume
\* The process restarts while a session is live: every task and call in
\* flight is gone, the controller is constructed anew, the store is kept.
Restart ==
    /\ ~obs.lost
    /\ active_session_id # "none"
    /\ db_sessions[active_session_id].status = "live"
    /\ obs' = [obs EXCEPT !.lost = TRUE, !.before = Held]
    /\ active_session_id' = "none"
    /\ timeline' = <<>>
    /\ current_index' = -1
    /\ current_entry' = NoEntry
    /\ current_start' = NoTime
    /\ current_end' = NoTime
    /\ current_finalized' = FALSE
    /\ timer_task' = "none"
    /\ lock' = "none"
    /\ lockq' = <<>>
    /\ task' = [t \in TaskIds |-> IdleTask]
    /\ sub' = [c \in SubIds |-> IdleSub]
    /\ players' = EmptyDict
    /\ answers' = EmptyDict
    /\ answer_results' = EmptyDict
    /\ answer_values' = EmptyDict
    /\ closest_results' = EmptyDict
    /\ scores_revealed' = EmptyDict
    /\ player_sockets' = EmptyDict
    /\ UNCHANGED <<now, dbVars, last, budget>>

\* resume with the lock held: the newest snapshot and the timeline are read,
\* the cursor is restored and the session is committed as live.
ResumeLoad(t) ==
    LET sid == task[t].sid IN
    /\ task[t].pc = "locked"
    /\ task[t].op = "resume"
    /\ IF sid \notin DOMAIN db_snapshots
       THEN /\ SetSch(EndOp(Sch, t))
            /\ UNCHANGED <<ctlVars, db_sessions>>
       ELSE /\ timeline' = _build_timeline(sid)
            /\ IF db_snapshots[sid].current_index >= Len(timeline')
               THEN /\ SetSch(EndOp(Sch, t))
                    /\ UNCHANGED <<active_session_id, current_index, current_entry,
                                   current_start, current_end, db_sessions>>
               ELSE /\ active_session_id' = sid
                    /\ current_index' = db_snapshots[sid].current_index
                    /\ current_entry' = At(timeline', db_snapshots[sid].current_index)
                    /\ current_start' = db_snapshots[sid].current_start
                    /\ current_end' = db_snapshots[sid].current_end
                    /\ db_sessions' = [db_sessions EXCEPT
                         ![sid].status = "live",
                         ![sid].active_quiz_index = db_snapshots[sid].active_quiz_index,
                         ![sid].active_question_index =
                             db_snapshots[sid].active_question_index]
                    /\ SetSch([Sch EXCEPT !.task[t].pc = "rs_load",
                                          !.task[t].manual = db_sessions[sid].manual_override])
            /\ UNCHANGED current_finalized
    /\ obs' = IF /\ sid \in DOMAIN db_snapshots
                 /\ db_snapshots[sid].current_index < Len(_build_timeline(sid))
              THEN [obs EXCEPT !.cancelled = "none"] ELSE obs
    /\ UNCHANGED <<now, player_sockets, sub, memVars, db_players, db_answers, db_snapshots, last, budget>>

\* {row[0]: row[k] for row in rows}: the last row of a player wins.
LastRow(rows, p) ==
    LET mine == SelectSeq(rows, LAMBDA i: db_answers[i].player_id = p)
    IN db_answers[mine[Len(mine)]]

\* resume after the commit: players and the answers of the current question
\* are loaded from the store; then the timer is restarted, or an expired
\* question is revealed and force_next is called.
ResumeRestore(t) ==
    LET sid == task[t].sid
        is_question == current_entry.kind = "question"
        rows == AnswerRows(sid, current_entry.question)
        pids == {db_answers[i].player_id : i \in SeqRange(rows)}
        remaining == Max(0, current_end - now)
    IN /\ task[t].pc = "rs_load"
       /\ players' = Put(players, sid,
                         [p \in {x \in DOMAIN db_players : db_players[x].session_id = sid}
                            |-> [score |-> db_players[p].score,
                                 connected |-> db_players[p].connected]])
       /\ IF is_question
          THEN /\ answers' = Put(answers, sid, pids)
               /\ answer_results' =
                    Put(answer_results, sid,
                        [p \in pids |-> BoolStr(LastRow(rows, p).is_correct)])
               /\ answer_values' =
                    Put(answer_values, sid, [p \in pids |-> LastRow(rows, p).answer])
               /\ closest_results' = Put(closest_results, sid, <<>>)
               /\ sub' = MarkStale(sid)
          ELSE /\ answer_values' = Put(answer_values, sid, EmptyDict)
               /\ UNCHANGED <<answers, answer_results, closest_results, sub>>
       /\ IF is_question /\ current_end # NoTime /\ ~task[t].manual
          THEN IF remaining > 0
               THEN /\ SetSch(EndOp(_start_timer(Sch, t, sid,
                                [current_entry EXCEPT !.duration_seconds = remaining]), t))
                    /\ UNCHANGED <<current_finalized, current_end>>
               ELSE Reveal([Sch EXCEPT !.task[t].trig = current_entry.pos], t, current_entry)
          ELSE /\ SetSch(EndOp(Sch, t))
               /\ UNCHANGED <<current_finalized, current_end>>
       /\ UNCHANGED <<now, player_sockets, active_session_id, timeline, current_index, current_entry,
                      current_start, scores_revealed, dbVars, last, obs, budget>>

\* ---------------------------------------------------------- submit_answer
RejectionNoDeadline(s, p) ==
    IF s # active_session_id THEN "inactive"
    ELSE IF current_entry.kind = "none" \/ current_entry.kind # "question" THEN "stage"
    ELSE IF s \notin DOMAIN players \/ p \notin DOMAIN players[s] THEN "unregistered"
    ELSE IF s \in DOMAIN answers /\ p \in answers[s] THEN "duplicate"
    ELSE "none"

\* The early returns of submit_answer, in the order the code takes them:
\* the reason of the first one taken, "none" when the answer is accepted.
Rejection(s, p) ==
    IF s # active_session_id THEN "inactive"
    ELSE IF current_entry.kind = "none" \/ current_entry.kind # "question" THEN "stage"
    ELSE IF s \notin DOMAIN players \/ p \notin DOMAIN players[s] THEN "unregistered"
    ELSE IF current_end # NoTime /\ now > current_end THEN "late"
    ELSE IF s \in DOMAIN answers /\ p \in answers[s] THEN "duplicate"
    ELSE "none"

SubmitAccepts(s, p) == Rejection(s, p) = "none"

SetdefaultOverwrite(d, k, v) == Put(d, k, v)

\* dict.setdefault(key, default)
Setdefault(d, k, v) == IF k \in DOMAIN d THEN d ELSE Put(d, k, v)

\* is_correct and score_delta by scoring and answer type (text answers are
\* graded by the oracle and are not part of these quizzes).
Verdict(question, answer) ==
    IF question.scoring_type = "closest"
    THEN [is_correct |-> FALSE, delta |-> 0]
    ELSE IF question.answer_type = "multiple_choice"
    THEN [is_correct |-> (answer # Null /\ answer = question.correct_answer),
          delta |-> IF answer # Null /\ answer = question.correct_answer
                    THEN Point ELSE 0]
    ELSE [is_correct |-> (answer # Null), delta |-> IF answer # Null THEN Point ELSE 0]

ScoreAnswer(q, answer) == Verdict(Question(q), answer)

FirstIdle == IF sub["c1"].pc = "idle" THEN "c1" ELSE "c2"

\* submit_answer up to its first suspension: the checks, the verdict and the
\* in-memory score bump; a rejected call returns False here.
submit_answer(c, s, p, answer) ==
    LET q == current_entry.question
        verdict == ScoreAnswer(q, answer)
        reason == Rejection(s, p)
    IN /\ sub[c].pc = "idle"
       /\ c = FirstIdle
       /\ answers' = IF reason \in {"duplicate", "none"}
                     THEN Setdefault(answers, s, {}) ELSE answers
       /\ IF reason = "none"
          THEN /\ players' = [players EXCEPT ![s][p].score = @ + verdict.delta]
               /\ sub' = [sub EXCEPT ![c] =
                            [pc |-> "sub_db", sid |-> s, pid |-> p, answer |-> answer,
                             question |-> q, is_correct |-> verdict.is_correct,
                             delta |-> verdict.delta, stale |-> FALSE]]
               /\ UNCHANGED <<last, obs, budget>>
          ELSE /\ budget.reject > 0
               /\ budget' = [budget EXCEPT !.reject = @ - 1]
               /\ last' = [op |-> "submit_answer", sid |-> s, pid |-> p,
                           reason |-> reason]
               /\ UNCHANGED <<players, sub>>
       /\ UNCHANGED <<now, player_sockets, ctlVars, schVars, answer_results, answer_values,
                      closest_results, scores_revealed, dbVars, obs>>

\* submit_answer at the store: the score is persisted (when one was awarded)
\* and the SessionAnswer row is inserted.
SubmitStore(c) ==
    LET s == sub[c].sid
        p == sub[c].pid
    IN /\ sub[c].pc = "sub_db"
       /\ IF /\ sub[c].delta # 0
             /\ p \in DOMAIN db_players
             /\ (s \notin DOMAIN players \/ p \notin DOMAIN players[s])
          THEN /\ sub' = [sub EXCEPT ![c] = IdleSub]
               /\ UNCHANGED <<db_players, db_answers>>
          ELSE /\ db_players' =
                    IF sub[c].delta # 0 /\ p \in DOMAIN db_players
                    THEN [db_players EXCEPT ![p].score = players[s][p].score]
                    ELSE db_players
               /\ db_answers' = Append(db_answers,
                    [session_id |-> s, question_id |-> sub[c].question, player_id |-> p,
                     answer |-> sub[c].answer, is_correct |-> sub[c].is_correct])
               /\ sub' = [sub EXCEPT ![c].pc = "sub_post"]
       /\ UNCHANGED <<now, player_sockets, ctlVars, schVars, memVars, db_sessions, db_snapshots, last, obs, budget>>

\* _maybe_fast_forward_question: the test that starts gap_then_next.
FastForwardDue(s, answered) ==
    LET session_players == IF s \in DOMAIN players THEN players[s] ELSE EmptyDict
        active_players == {p \in DOMAIN session_players : session_players[p].connected}
    IN /\ ~(active_session_id # s \/ current_entry.kind = "none"
            \/ current_entry.kind # "question")
       /\ active_players # {}
       /\ ~(Cardinality(answered) < Cardinality(active_players))

\* submit_answer after the row is committed: the caches are updated, then
\* _maybe_fast_forward_question runs and the call returns True.
SubmitRecord(c) ==
    LET s == sub[c].sid
        p == sub[c].pid
        answers1 == IF sub[c].stale THEN answers
                    ELSE [answers EXCEPT ![s] = @ \cup {p}]
        results == IF s \in DOMAIN answer_results THEN answer_results[s] ELSE EmptyDict
        values == IF s \in DOMAIN answer_values THEN answer_values[s] ELSE EmptyDict
        answered == IF s \in DOMAIN answers1 THEN answers1[s] ELSE {}
    IN /\ sub[c].pc = "sub_post"
       /\ answers' = answers1
       /\ answer_results' =
            Put(answer_results, s,
                Put(results, p, IF Question(sub[c].question).scoring_type = "closest"
                                THEN "null" ELSE BoolStr(sub[c].is_correct)))
       /\ answer_values' = Put(answer_values, s, Put(values, p, sub[c].answer))
       /\ IF FastForwardDue(s, answered)
          THEN SetSch(Spawn(CancelTimer(Sch, "none"), "ff_start", s, current_entry, now,
                            current_entry.gap_seconds))
          ELSE UNCHANGED schVars
       /\ sub' = [sub EXCEPT ![c] = IdleSub]
       /\ UNCHANGED <<now, player_sockets, ctlVars, players, closest_results, scores_revealed, dbVars,
                      last, obs, budget>>

\* --------------------------------------------------- grading, on its own
\* The questions and the answers submit_answer is given here (Null: no
\* answer in the message).
GradedQuestions == {"qc", "qn", "qm"}
GradedAnswers == {Null, 0, 1, 2}

\* Two submit_answer calls that have passed the checks, for any question and
\* any answer, about to be graded.
InitGrade ==
    /\ now = 0
    /\ active_session_id = "none"
    /\ timeline = <<>>
    /\ current_index = -1
    /\ current_entry = NoEntry
    /\ current_start = NoTime
    /\ current_end = NoTime
    /\ current_finalized = FALSE
    /\ timer_task = "none"
    /\ lock = "none"
    /\ lockq = <<>>
    /\ task = [t \in TaskIds |-> IdleTask]
    /\ sub \in [SubIds -> {[IdleSub EXCEPT !.pc = "grade", !.sid = "A", !.pid = "p1",
                                            !.question = q, !.answer = a] :
                              q \in GradedQuestions, a \in GradedAnswers}]
    /\ players = EmptyDict
    /\ answers = EmptyDict
    /\ answer_results = EmptyDict
    /\ answer_values = EmptyDict
    /\ closest_results = EmptyDict
    /\ scores_revealed = EmptyDict
    /\ player_sockets = EmptyDict
    /\ db_sessions = [s \in Sessions |-> DraftSession]
    /\ db_players = EmptyDict
    /\ db_answers = <<>>
    /\ db_snapshots = EmptyDict
    /\ last = NoCall
    /\ obs = NoObs
    /\ budget = Calls(0, 0, 0, 0, 0, 0, 0)

\* submit_answer's grading of the answer: is_correct and score_delta.
Grade(c) ==
    /\ sub[c].pc = "grade"
    /\ sub' = [sub EXCEPT ![c].pc = "graded",
                          ![c].is_correct = ScoreAnswer(sub[c].question, sub[c].answer).is_correct,
                          ![c].delta = ScoreAnswer(sub[c].question, sub[c].answer).delta]
    /\ UNCHANGED <<now, player_sockets, ctlVars, schVars, memVars, dbVars, last, obs, budget>>

NextGrade == \E c \in SubIds : Grade(c)

SpecGrade == InitGrade /\ [][NextGrade]_vars

\* ------------------------------------------------------------------ state
\* The `question` payload when there is none.
NoQuestionPayload ==
    [id |-> "none", started_at |-> NoTime, closes_at |-> NoTime, remaining_seconds |-> 0,
     revealed |-> FALSE, correct_answer |-> Null]

\* _load_players_from_db: the session's players as the store has them.
StoredPlayers(s) ==
    [p \in {x \in DOMAIN db_players : db_players[x].session_id = s}
       |-> [score |-> db_players[p].score, connected |-> db_players[p].connected]]

\* state(session_id): the payload built from the session row and the
\* controller's fields (players are loaded from the store, and answer_values
\* emptied, when the controller has none for the session).
state(s) ==
    LET live == current_entry.kind # "none" /\ db_sessions[s].status = "live"
        revealed == current_end # NoTime /\ now >= current_end
        loaded == s \notin DOMAIN players
    IN [status |-> db_sessions[s].status,
        manual_override |-> db_sessions[s].manual_override,
        question |-> IF live /\ current_entry.kind = "question"
                     THEN [id |-> current_entry.question,
                           started_at |-> current_start,
                           closes_at |-> current_end,
                           remaining_seconds |-> remaining_seconds,
                           revealed |-> revealed,
                           correct_answer |->
                               IF revealed
                               THEN Question(current_entry.question).correct_answer
                               ELSE Null]
                     ELSE NoQuestionPayload,
        quiz_intro |-> IF live /\ current_entry.kind = "quiz_intro"
                       THEN current_entry.quiz_index ELSE NoIndex,
        stage |-> current_entry.kind,
        players |-> IF loaded THEN StoredPlayers(s) ELSE players[s],
        scores_revealed |-> IF s \in DOMAIN scores_revealed
                            THEN scores_revealed[s] ELSE FALSE,
        answers |-> IF s \in DOMAIN answer_results THEN answer_results[s] ELSE EmptyDict,
        answer_values |-> IF ~loaded /\ s \in DOMAIN answer_values
                          THEN answer_values[s] ELSE EmptyDict,
        closest_results |-> IF s \in DOMAIN closest_results
                            THEN closest_results[s] ELSE <<>>]

\* ---------------------------------------------------------- reveal_scores
\* The admin route reveal_scores: 400 unless the session is finished, else
\* set_scores_revealed(session_id, reveal) sets the flag.
reveal_scores(s, reveal) ==
    /\ db_sessions[s].status = "finished"
    /\ scores_revealed' = Put(scores_revealed, s, reveal)
    /\ UNCHANGED <<now, player_sockets, ctlVars, schVars, sub, players, answers, answer_results,
                   answer_values, closest_results, dbVars, last, obs, budget>>

\* ------------------------------------------------------------------ reset
\* cancel(session_id) forgetting `self.timer_task.cancel()`: the reference is
\* dropped and the task keeps running.
cancelLeavesTimer(S, s) ==
    IF active_session_id # s
    THEN /\ SetSch(S)
         /\ UNCHANGED <<ctlVars, sub, memVars, player_sockets>>
    ELSE /\ active_session_id' = "none"
         /\ timeline' = <<>>
         /\ current_index' = -1
         /\ current_entry' = NoEntry
         /\ current_start' = NoTime
         /\ current_end' = NoTime
         /\ SetSch([S EXCEPT !.timer_task = "none"])
         /\ answers' = Pop(answers, s)
         /\ scores_revealed' = Pop(scores_revealed, s)
         /\ answer_results' = Pop(answer_results, s)
         /\ answer_values' = Pop(answer_values, s)
         /\ closest_results' = Pop(closest_results, s)
         /\ players' = Pop(players, s)
         /\ player_sockets' = Pop(player_sockets, s)
         /\ sub' = MarkStale(s)
         /\ UNCHANGED current_finalized

\* cancel(session_id): no lock, no suspension.
cancel(S, s) ==
    IF active_session_id # s
    THEN /\ SetSch(S)
         /\ UNCHANGED <<ctlVars, sub, memVars, player_sockets>>
    ELSE /\ active_session_id' = "none"
         /\ timeline' = <<>>
         /\ current_index' = -1
         /\ current_entry' = NoEntry
         /\ current_start' = NoTime
         /\ current_end' = NoTime
         /\ SetSch([CancelTimer(S, "none") EXCEPT !.timer_task = "none"])
         /\ answers' = Pop(answers, s)
         /\ scores_revealed' = Pop(scores_revealed, s)
         /\ answer_results' = Pop(answer_results, s)
         /\ answer_values' = Pop(answer_values, s)
         /\ closest_results' = Pop(closest_results, s)
         /\ players' = Pop(players, s)
         /\ player_sockets' = Pop(player_sockets, s)
         /\ sub' = MarkStale(s)
         /\ UNCHANGED current_finalized

\* The admin route reset_session up to its store statements: the session
\* is read and the runtime cancels it.
reset_session(t, s) ==
    /\ task[t].pc = "idle"
    /\ budget.reset > 0
    /\ budget' = [budget EXCEPT !.reset = @ - 1]
    /\ cancel([Sch EXCEPT !.task[t] = [IdleTask EXCEPT !.pc = "reset_db", !.op = "reset",
                                                        !.sid = s]], s)
    /\ obs' = IF /\ active_session_id = s
                 /\ \A u \in TaskIds : task[u].op \notin {"start", "resume"}
              THEN [obs EXCEPT !.cancelled = s] ELSE obs
    /\ UNCHANGED <<now, dbVars, last>>

\* reset_session at its commit: the session row is reset and the session's
\* snapshots, answers and players are deleted.
ResetCommit(t) ==
    LET s == task[t].sid IN
    /\ task[t].pc = "reset_db"
    /\ db_sessions' = [db_sessions EXCEPT ![s] = DraftSession]
    /\ db_snapshots' = Pop(db_snapshots, s)
    /\ db_answers' = SelectSeq(db_answers, LAMBDA r: r.session_id # s)
    /\ db_players' = [p \in {x \in DOMAIN db_players : db_players[x].session_id # s}
                        |-> db_players[p]]
    /\ SetSch(EndOp(Sch, t))
    /\ UNCHANGED <<now, player_sockets, ctlVars, sub, memVars, last, obs, budget>>

\* ---------------------------------------------------------- specification
\* The steps of _advance, whoever runs it.
AdvanceSteps ==
    \/ \E t \in TaskIds : AdvanceEnter(t)
    \/ \E t \in TaskIds : Finalize(t)
    \/ \E t \in TaskIds : AdvanceIncrement(t)
    \/ \E t \in TaskIds : AdvanceSet(t)
    \/ \E t \in TaskIds : AdvanceFinish(t)

\* The steps of timer_loop and gap_then_next.
TimerSteps ==
    \/ \E t \in TimerIds : TimerWake(t)
    \/ \E t \in TimerIds : GapWake(t)
    \/ \E t \in TaskIds : RevealSet(t)
    \/ \E t \in TimerIds : FastForwardStart(t)
    \/ \E t \in TaskIds : ForceNextCheck(t)

\* submit_answer calls on the connections C, with their inputs.
SubmitSteps(C, S, P, V) ==
    \/ \E c \in C, s \in S, p \in P, a \in V : submit_answer(c, s, p, a)
    \/ \E c \in C : SubmitStore(c)
    \/ \E c \in C : SubmitRecord(c)

\* Players joining and leaving a session.
PlayerSteps(S, P) ==
    \/ \E s \in S, p \in P : register_player(s, p)
    \/ \E s \in S, p \in P : disconnect_player(s, p)

\* The host starts a session of S and forces next stages.
HostSteps(S) ==
    \/ \E t \in HostIds, s \in S : start(t, s)
    \/ \E t \in HostIds, s \in S : force_next(t, s)
    \/ \E t \in TaskIds : StartLoad(t)

\* Session A played by one player on two connections: the host starts it
\* once and may force the next stage; timers and fast-forward run.
Next ==
    \/ Tick
    \/ PlayerSteps({"A"}, {"p1"})
    \/ HostSteps({"A"})
    \/ AdvanceSteps
    \/ TimerSteps
    \/ SubmitSteps(SubIds, {"A"}, {"p1"}, {1})

Spec == Init /\ [][Next]_vars

\* Session A played by one player on one connection, with calls that are
\* rejected (for either session, by either player) and the host switching
\* the session to manual.
NextReject ==
    \/ Tick
    \/ PlayerSteps({"A"}, {"p1"})
    \/ HostSteps({"A"})
    \/ AdvanceSteps
    \/ TimerSteps
    \/ SubmitSteps({"c1"}, Sessions, Players, {1})
    \/ \E t \in HostIds : set_manual(t, "A", TRUE)
    \/ \E t \in TaskIds : SetManualWrite(t)
    \/ \E t \in TaskIds : SetManualPost(t)

SpecReject == InitWith(Calls(1, MaxNexts, 1, 0, 0, 1, MaxTime)) /\ [][NextReject]_vars

\* Session A played by one player on one connection and reset by the admin
\* while it is played.
NextReset ==
    \/ Tick
    \/ PlayerSteps({"A"}, {"p1"})
    \/ HostSteps({"A"})
    \/ AdvanceSteps
    \/ TimerSteps
    \/ SubmitSteps({"c1"}, {"A"}, {"p1"}, {1})
    \/ \E t \in AdminIds : reset_session(t, "A")
    \/ \E t \in AdminIds : ResetCommit(t)

SpecReset == InitWith(Calls(1, MaxNexts, 0, 0, 1, 0, MaxTime)) /\ [][NextReset]_vars

\* Session A played by two players, one connection at a time.
NextCrowd ==
    \/ Tick
    \/ PlayerSteps({"A"}, Players)
    \/ HostSteps({"A"})
    \/ AdvanceSteps
    \/ TimerSteps
    \/ SubmitSteps({"c1"}, {"A"}, Players, {1})

SpecCrowd == InitWith(Calls(1, MaxNexts, 0, 0, 0, 0, MaxTime)) /\ [][NextCrowd]_vars

\* The host starts session B while session A is played.
NextTwo ==
    \/ PlayerSteps({"A"}, {"p1"})
    \/ HostSteps(Sessions)
    \/ AdvanceSteps
    \/ \E t \in TaskIds : ForceNextCheck(t)
    \/ SubmitSteps({"c1"}, {"A"}, {"p1"}, {1})

SpecTwo == InitWith(Calls(2, MaxNexts, 0, 0, 0, 0, 0)) /\ [][NextTwo]_vars

\* Session A played by one player on one connection, the host setting and
\* clearing manual_override.
NextManual ==
    \/ Tick
    \/ PlayerSteps({"A"}, {"p1"})
    \/ HostSteps({"A"})
    \/ AdvanceSteps
    \/ TimerSteps
    \/ SubmitSteps({"c1"}, {"A"}, {"p1"}, {1})
    \/ \E t \in HostIds, manual \in BOOLEAN : set_manual(t, "A", manual)
    \/ \E t \in TaskIds : SetManualWrite(t)
    \/ \E t \in TaskIds : SetManualPost(t)

\* Session A played by one player on one connection; the admin resets
\* sessions, live or not, twice.
NextCancel ==
    \/ Tick
    \/ PlayerSteps({"A"}, {"p1"})
    \/ HostSteps({"A"})
    \/ AdvanceSteps
    \/ TimerSteps
    \/ SubmitSteps({"c1"}, {"A"}, {"p1"}, {1})
    \/ \E t \in AdminIds, s \in {"A", "B"} : reset_session(t, s)
    \/ \E t \in AdminIds : ResetCommit(t)

SpecCancel == InitWith(Calls(1, MaxNexts, 0, 0, 2, 0, MaxTime)) /\ [][NextCancel]_vars

\* Session A answered by two players on two connections with either value:
\* the host forces the first question, which ends when every connected
\* player has answered (the clock does not advance).
NextClosest ==
    \/ \E p \in Players : register_player("A", p)
    \/ HostSteps({"A"})
    \/ \E t \in TaskIds : AdvanceEnter(t)
    \/ \E t \in TaskIds : AdvanceSet(t)
    \/ \E t \in TaskIds : ForceNextCheck(t)
    \/ \E t \in TimerIds : FastForwardStart(t)
    \/ \E t \in TaskIds : Finalize(t)
    \/ \E t \in TaskIds : RevealSet(t)
    \/ SubmitSteps(SubIds, {"A"}, Players, AnswerValues)

SpecClosest == InitWith(Calls(1, 1, 0, 0, 0, 0, 0)) /\ [][NextClosest]_vars

SpecManual == InitWith(Calls(1, MaxNexts, 2, 0, 0, 0, MaxTime)) /\ [][NextManual]_vars

\* Session A played by one player on one connection; the process restarts
\* and the host resumes the session.
NextResume ==
    \/ Tick
    \/ PlayerSteps({"A"}, {"p1"})
    \/ HostSteps({"A"})
    \/ AdvanceSteps
    \/ TimerSteps
    \/ SubmitSteps({"c1"}, {"A"}, {"p1"}, {1})
    \/ Restart
    \/ \E t \in HostIds : resume(t, "A")
    \/ \E t \in TaskIds : ResumeLoad(t)
    \/ \E t \in TaskIds : ResumeRestore(t)

SpecResume == InitWith(Calls(1, MaxNexts, 0, 1, 0, 0, MaxTime)) /\ [][NextResume]_vars

\* Session A played by one player on one connection while the host clears
\* manual_override, resumes the session and the admin resets it.
NextTimers ==
    \/ Tick
    \/ register_player("A", "p1")
    \/ HostSteps({"A"})
    \/ AdvanceSteps
    \/ TimerSteps
    \/ SubmitSteps({"c1"}, {"A"}, {"p1"}, {1})
    \/ \E t \in HostIds : set_manual(t, "A", FALSE)
    \/ \E t \in TaskIds : SetManualWrite(t)
    \/ \E t \in TaskIds : SetManualPost(t)
    \/ \E t \in HostIds : resume(t, "A")
    \/ \E t \in TaskIds : ResumeLoad(t)
    \/ \E t \in TaskIds : ResumeRestore(t)
    \/ \E t \in AdminIds : reset_session(t, "A")
    \/ \E t \in AdminIds : ResetCommit(t)

SpecTimers == InitWith(Calls(1, MaxNexts, 1, 1, 1, 0, MaxTime)) /\ [][NextTimers]_vars

\* Session A played by one player to its end; the admin reveals and hides
\* the scores, resumes the session and resets it.
NextReveal ==
    \/ Tick
    \/ register_player("A", "p1")
    \/ HostSteps({"A"})
    \/ AdvanceSteps
    \/ TimerSteps
    \/ SubmitSteps({"c1"}, {"A"}, {"p1"}, {1})
    \/ \E reveal \in BOOLEAN : reveal_scores("A", reveal)
    \/ \E t \in HostIds : resume(t, "A")
    \/ \E t \in TaskIds : ResumeLoad(t)
    \/ \E t \in TaskIds : ResumeRestore(t)
    \/ \E t \in AdminIds : reset_session(t, "A")
    \/ \E t \in AdminIds : ResetCommit(t)

SpecReveal == InitWith(Calls(1, MaxNexts, 0, 1, 1, 0, MaxTime)) /\ [][NextReveal]_vars

\* The clock advances while every call and task is asleep, finished or
\* blocked (on a send that never completes, or on the lock behind such a
\* task) and no sleep is over: a task that is ready runs before time passes.
TickQuiet ==
    /\ now < budget.clock
    /\ \A t \in TaskIds : task[t].pc \in {"idle", "sleep", "gap", "bc_wait", "wait_lock"}
    /\ \A t \in TaskIds : task[t].pc \in {"sleep", "gap"} => now < task[t].wake
    /\ \A c \in SubIds : sub[c].pc = "idle"
    /\ now' = now + 1
    /\ UNCHANGED <<player_sockets, ctlVars, schVars, sub, memVars, dbVars, last, obs, budget>>

\* The next step of the call or task t, whatever it is.
Progress(t) ==
    \/ StartLoad(t)
    \/ ForceNextCheck(t)
    \/ AdvanceEnter(t)
    \/ Finalize(t)
    \/ AdvanceIncrement(t)
    \/ AdvanceSet(t)
    \/ AdvanceFinish(t)
    \/ TimerWake(t)
    \/ GapWake(t)
    \/ RevealSet(t)
    \/ FastForwardStart(t)

\* Session A played by one player on one connection, the timers driving it
\* to its end: every call and task that can run does run, and the clock
\* advances when none can.
NextLive ==
    \/ TickQuiet
    \/ register_player("A", "p1")
    \/ \E t \in HostIds : start(t, "A")
    \/ \E t \in HostIds : force_next(t, "A")
    \/ \E t \in TaskIds : Progress(t)
    \/ SubmitSteps({"c1"}, {"A"}, {"p1"}, {1})

SpecLive ==
    /\ InitWith(Calls(1, MaxNexts, 0, 0, 0, 0, MaxLiveTime))
    /\ [][NextLive]_vars
    /\ WF_vars(TickQuiet)
    /\ \A t \in TaskIds : WF_vars(Progress(t))
    /\ WF_vars(SubmitStore("c1") \/ SubmitRecord("c1"))

\* The next step of the call or task t, broadcasts included.
ProgressSinks(t) ==
    \/ StartLoad(t)
    \/ ForceNextCheck(t)
    \/ AdvanceEnter(t)
    \/ Finalize(t)
    \/ AdvanceIncrement(t)
    \/ AdvanceSet(t)
    \/ AdvanceFinish(t)
    \/ AdvanceSnapshot(t)
    \/ TimerWake(t)
    \/ GapWake(t)
    \/ RevealSet(t)
    \/ BroadcastSend(t)

\* Session A watched through one sink, the timers driving it to its end:
\* every call and task that can run does run (a send may complete, raise or
\* stay pending), and the clock advances when none can.
NextLiveSinks ==
    \/ TickQuiet
    \/ add_player_socket("A", "w1")
    \/ \E t \in HostIds : start(t, "A")
    \/ \E t \in HostIds : force_next(t, "A")
    \/ \E t \in TaskIds : ProgressSinks(t)

SpecLiveSinks ==
    /\ InitWith(Calls(1, MaxNexts, 0, 0, 0, 0, MaxLiveTime))
    /\ [][NextLiveSinks]_vars
    /\ WF_vars(TickQuiet)
    /\ \A t \in TaskIds : WF_vars(ProgressSinks(t))

\* Session A watched through two sinks: the host starts it and forces next
\* stages up to the end, and each stage is broadcast.  The clock stands still, so no timer
\* wakes.
NextSinks ==
    \/ \E w \in Sinks : add_player_socket("A", w)
    \/ \E t \in HostIds : start(t, "A")
    \/ \E t \in HostIds : force_next(t, "A")
    \/ \E t \in TaskIds : StartLoad(t)
    \/ \E t \in TaskIds : ForceNextCheck(t)
    \/ AdvanceSteps
    \/ \E t \in TaskIds : BroadcastSend(t)
    \/ \E t \in TaskIds : AdvanceSnapshot(t)

SpecSinks == InitWith(Calls(1, MaxNexts + 1, 0, 0, 0, 0, 0)) /\ [][NextSinks]_vars

\* ------------------------------------------------------------ properties
\* The rows of SessionAnswer for one (session, question, player).
RowsOf(s, q, p) ==
    {i \in 1..Len(db_answers) :
        /\ db_answers[i].session_id = s
        /\ db_answers[i].question_id = q
        /\ db_answers[i].player_id = p}

\* The most one question can award: 1.0 at submit, 1.5 at finalization.
MaxAward(q) == IF Question(q).scoring_type = "closest" THEN (3 * Point) \div 2 ELSE Point

\* The questions a player has a row for.
Answered(s, p) ==
    {q \in {"qc", "qm"} : RowsOf(s, q, p) # {}}

RECURSIVE SumAwards(_)
SumAwards(qs) ==
    IF qs = {} THEN 0
    ELSE LET q == CHOOSE x \in qs : TRUE IN MaxAward(q) + SumAwards(qs \ {q})

\* C1: across any interleaving of submit_answer calls there is at most one
\* SessionAnswer row per (session, question, player), and a player's
\* persisted score never exceeds one award per question answered.
C1_OneAnswerPerQuestion ==
    /\ \A s \in Sessions, q \in {"qc", "qm"}, p \in Players :
           Cardinality(RowsOf(s, q, p)) <= 1
    /\ \A p \in DOMAIN db_players :
           db_players[p].score <= SumAwards(Answered(db_players[p].session_id, p))

\* The five conditions under which the spec has submit_answer accept.
FiveConditions(s, p) ==
    /\ s = active_session_id
    /\ current_entry.kind = "question"
    /\ now <= current_end
    /\ s \in DOMAIN players /\ p \in DOMAIN players[s]
    /\ ~(s \in DOMAIN answers /\ p \in answers[s])

\* C2: submit_answer returns true if and only if the five conditions hold
\* when it is called: a call is accepted only when they hold, it is
\* rejected only when one of them fails, and an accepted call runs to its
\* `return True`.
C2_ReturnsTrueIffFive ==
    [][/\ \A c \in SubIds :
            /\ (sub[c].pc = "idle" /\ sub'[c].pc = "sub_db")
                   => FiveConditions(sub'[c].sid, sub'[c].pid)
            /\ (sub[c].pc # "idle" /\ sub'[c].pc = "idle") => sub[c].pc = "sub_post"
       /\ last' # last => ~FiveConditions(last'.sid, last'.pid)]_vars

\* A submit_answer call is accepted in this step.
Accepted(c) == sub[c].pc = "idle" /\ sub'[c].pc = "sub_db"

\* C3: no answer submitted when clock.now() > current_end is accepted:
\* every accepted call is made at a time not after current_end.
C3_NoLateAnswerAccepted ==
    [][\A c \in SubIds : Accepted(c) => now <= current_end]_vars

\* A late call was rejected after an early reveal moved current_end before
\* the question's scheduled end.
C3_LateRejectedAfterReveal ==
    /\ last.reason = "late"
    /\ current_entry.kind = "question"
    /\ current_finalized
    /\ current_end < current_start + current_entry.duration_seconds
    /\ now > current_end

\* C4: a rejected submit_answer returns false and leaves unchanged every
\* player's in-memory and persisted score, the SessionAnswer rows, the
\* answered set, answer_results, answer_values, the timer task and the
\* stage cursor.
C4_RejectionChangesNothing ==
    [][last' # last =>
         UNCHANGED <<players, db_players, db_answers, answers, answer_results,
                     answer_values, timer_task, task, sub, current_index,
                     current_entry, current_start, current_end,
                     current_finalized>>]_vars

\* A second submission by a player who already answered was rejected.
C4_DuplicateRejected ==
    /\ last.reason = "duplicate"
    /\ last.sid \in DOMAIN answers
    /\ last.pid \in answers[last.sid]
    /\ RowsOf(last.sid, current_entry.question, last.pid) # {}

\* A gap_then_next task is created in this step (seen by a task slot
\* turning into one), and one exists after this step.
FastForwardTriggered ==
    \E t \in TimerIds : task[t].pc # "ff_start" /\ task'[t].pc = "ff_start"
FastForwardPending == \E t \in TimerIds : task'[t].pc = "ff_start"

\* C5: after an accepted answer to the current question, fast-forward is
\* triggered if and only if some player is connected and every connected
\* player is in the answered set of the current question.
C5_FastForwardIffAllConnectedAnswered ==
    [][\A c \in SubIds :
         (/\ sub[c].pc = "sub_post" /\ sub'[c].pc = "idle"
          /\ active_session_id = sub[c].sid
          /\ current_entry.kind = "question"
          /\ sub[c].sid \in DOMAIN players /\ sub[c].sid \in DOMAIN answers')
         => LET s == sub[c].sid
                connected == {p \in DOMAIN players[s] : players[s][p].connected}
                all_answered == connected # {} /\ connected \subseteq answers'[s]
            IN /\ FastForwardTriggered => all_answered
               /\ all_answered => FastForwardPending]_vars

\* Task t applies the closest-value awards of its question in this step.
AwardsApplied(t) ==
    /\ task[t].pc = "fin_read"
    /\ task'[t].pc # "fin_read"
    /\ db_players' # db_players \/ players' # players

\* C6: score finalization is applied at most once per question stage:
\* awards are applied only while no ranking of an earlier finalization of
\* the current question is recorded.
C6_FinalizedAtMostOnce ==
    [][\A t \in TaskIds :
         AwardsApplied(t)
         => (task[t].sid \notin DOMAIN closest_results
             \/ closest_results[task[t].sid] = <<>>)]_vars

\* Task t runs `self.current_index += 1` in this step.
Increments(t) ==
    /\ task[t].pc \in {"adv_enter", "adv_inc"}
    /\ task'[t].pc \in {"adv_set", "adv_fin"}

\* C7: a force_next triggered for one stage (by the timer task or the
\* fast-forward task created for it, or by the host while it was current)
\* advances the session out of that stage only: when it increments
\* current_index, the cursor is still at the stage it was triggered for.
C7_AdvancesOwnStageOnly ==
    [][\A t \in TaskIds :
         (Increments(t) /\ task[t].op = "force_next")
         => current_index = task[t].trig]_vars

\* C8: the stages that become current are timeline[0], timeline[1], ... in
\* order, none skipped or repeated: a new current entry is the one after
\* the entry it replaces, and the cursor leaves index k only when
\* timeline[k] is the current entry.
C8_StagesInOrder ==
    [][/\ current_entry' # current_entry => current_entry'.pos = current_entry.pos + 1
       /\ current_index' # current_index => current_index = current_entry.pos]_vars

\* C9: at most one session is live at any moment: a session whose status
\* is live is the controller's active session.
C9_LiveIsActive ==
    \A s \in Sessions : db_sessions[s].status = "live" => active_session_id = s

\* The per-session state of s and the shared cursor are as cancel(s) leaves
\* them, in the state after this step.
ClearedAsByCancel(s) ==
    /\ s \notin DOMAIN players'
    /\ s \notin DOMAIN answers'
    /\ s \notin DOMAIN answer_results'
    /\ s \notin DOMAIN answer_values'
    /\ s \notin DOMAIN closest_results'
    /\ s \notin DOMAIN scores_revealed'
    /\ current_entry' = NoEntry
    /\ timer_task' = "none"
    /\ \A t \in TimerIds : task'[t].pc = "idle"

\* The questions of a session's timeline.
QuestionsOf(s) ==
    {_build_timeline(s)[i].question : i \in 1..Len(_build_timeline(s))} \ {"none"}

\* C10: when start(B) takes over from an active session A, A is first
\* aborted as by cancel(A), so no question of A is finalized under B:
\* the step that makes another session active leaves A's state cleared,
\* and a finalization run for a session is of one of its own questions.
C10_StartAbortsActiveSession ==
    [][/\ (/\ active_session_id # "none"
            /\ active_session_id' # "none"
            /\ active_session_id' # active_session_id)
           => ClearedAsByCancel(active_session_id)
       /\ \A t \in TaskIds :
            task'[t].pc = "fin_read" => task'[t].fq \in QuestionsOf(task'[t].sid)]_vars

\* C11: start fails, and the session does not become live, when its
\* timeline holds no question entry: a live session has a question.
C11_NoLiveSessionWithoutQuestions ==
    \A s \in Sessions : db_sessions[s].status = "live" => QuestionsOf(s) # {}

\* The call of task t fails in this step with 404 or 400: it raises from
\* its first locked step.
CallFails(t) == task[t].pc = "locked" /\ task'[t].pc = "idle"

\* C12: a start, force_next, set_manual or resume that fails with 404 or
\* 400 leaves the controller's state and the persisted statuses unchanged.
C12_FailedCallChangesNothing ==
    [][\A t \in HostIds :
         CallFails(t)
         => /\ UNCHANGED <<active_session_id, timeline, current_index, current_entry,
                           current_start, current_end, timer_task>>
            /\ \A s \in Sessions : db_sessions'[s].status = db_sessions[s].status]_vars

\* The timer of the current question woke under manual_override and returned,
\* and the override is still set.
HeldByHost ==
    /\ active_session_id # "none"
    /\ current_entry.kind = "question"
    /\ obs.manual_return = current_index
    /\ db_sessions[active_session_id].manual_override

\* A force_next called by the host takes a step.
HostForceNextStep ==
    \E t \in HostIds : task[t].op = "force_next" /\ task'[t] # task[t]

\* C13: once the timer of a question has woken with manual_override set and
\* returned, the session stays on that question, current_index and
\* current_finalized unchanged, until the host calls force_next or clears
\* the override.
C13_ManualHoldsQuestion ==
    [][(/\ HeldByHost
        /\ db_sessions'[active_session_id].manual_override
        /\ \/ current_index' # current_index
           \/ current_finalized' # current_finalized)
       => HostForceNextStep]_vars

\* Task t called force_next from inside `async with self.lock` and waits for
\* the lock its own caller holds: neither ever proceeds.
WaitsForOwnLock(t) == task[t].pc = "wait_lock" /\ lock = t

\* C14: set_manual(session_id, false) on the active session, on a question
\* with no time remaining, runs force_next immediately and returns: the
\* force_next it calls is never left waiting for the lock.
C14_ClearRunsForceNext ==
    \A t \in HostIds :
        (task[t].caller = "set_manual" /\ current_entry.kind = "question")
        => ~WaitsForOwnLock(t)

\* set_manual runs its lines after the commit in this step, on an intro.
SetManualOnIntro(t) ==
    /\ task[t].pc = "sm_post"
    /\ task'[t] # task[t]
    /\ current_entry.kind = "quiz_intro"

\* C15: set_manual, with either value, on a quiz_intro changes only the
\* manual_override flag: the cursor and the timer task are unchanged and the
\* call returns without attempting a stage transition.
C15_ManualOnIntroOnlySetsFlag ==
    [][\A t \in HostIds :
         /\ (task[t].pc = "locked" /\ task[t].op = "set_manual" /\ task'[t] # task[t]
             /\ current_entry.kind = "quiz_intro")
            => UNCHANGED <<current_index, current_entry, current_start, current_end,
                           timer_task>>
         /\ SetManualOnIntro(t)
            => /\ task'[t].pc = "idle"
               /\ UNCHANGED <<current_index, current_entry, current_start, current_end,
                              timer_task>>]_vars

\* A stage is entered in this step: _advance has made a new entry current.
StageEntered == current_entry' # current_entry /\ current_entry'.kind # "none"

\* C16: a snapshot is written on every stage transition: after a transition
\* into a stage, whoever caused it (start, a host force_next, the timer's or
\* the fast-forward task's force_next), the newest snapshot of the session
\* holds the controller's current_index, current_start and current_end.
C16_SnapshotOnEveryTransition ==
    [][StageEntered
       => /\ active_session_id' \in DOMAIN db_snapshots'
          /\ db_snapshots'[active_session_id'].current_index = current_index'
          /\ db_snapshots'[active_session_id'].current_start = current_start'
          /\ db_snapshots'[active_session_id'].current_end = current_end']_vars

\* The answered set and the answer values the controller holds for s.
AnsweredIn(s) == IF s \in DOMAIN answers THEN answers[s] ELSE {}
ValuesIn(s) == IF s \in DOMAIN answer_values THEN answer_values[s] ELSE EmptyDict

\* C17: when the in-memory state is lost while a session is live and resume
\* is then called, the restored current_index, current_start, current_end,
\* answered set and answer_values equal those held immediately before the
\* loss (here: a loss at a moment when no call and no transition was under
\* way, and a resume before any further answer is stored).
C17_ResumeRestoresPreCrash ==
    [][\A t \in HostIds, s \in Sessions :
         (/\ obs.lost /\ obs.before.quiet /\ s = obs.before.sid /\ task[t].sid = s
          /\ Len(db_answers') = obs.before.rows)
         => /\ (task[t].pc = "locked" /\ task[t].op = "resume" /\ task'[t].pc = "rs_load")
               => /\ current_index' = obs.before.current_index
                  /\ current_start' = obs.before.current_start
                  /\ current_end' = obs.before.current_end
            /\ (task[t].pc = "rs_load" /\ task'[t].pc # "rs_load")
               => /\ AnsweredIn(s)' = obs.before.answered
                  /\ ValuesIn(s)' = obs.before.answer_values]_vars

\* C18: resume on a snapshot whose stage is a question with manual_override
\* false and current_end <= now reveals the question and then advances, and
\* the call returns: the force_next it calls after the reveal is never left
\* waiting for the lock.
C18_ResumeExpiredAdvances ==
    \A t \in HostIds : task[t].caller = "resume" => ~WaitsForOwnLock(t)

\* The admin task t calls cancel(s) in this step.
Cancels(t, s) == task[t].pc = "idle" /\ task'[t].pc = "reset_db" /\ task'[t].sid = s

FinishDone(s) ==
    /\ db_sessions[s].status = "finished"
    /\ ~\E t \in TaskIds : task[t].pc = "adv_fin" /\ task[t].sid = s

\* C20: when _advance moves current_index past the end of the timeline the
\* session is persisted as finished with finished_at recorded and its active
\* indices cleared, the timer is cancelled and the active-session binding is
\* dropped, so that afterwards force_next fails with 400 and submit_answer
\* returns false for it.
C20_FinishDropsBinding ==
    \A s \in Sessions :
        FinishDone(s)
        => /\ db_sessions[s].finished_at # NoTime
           /\ db_sessions[s].active_quiz_index = NoIndex
           /\ db_sessions[s].active_question_index = NoIndex
           /\ active_session_id # s
           /\ timer_task = "none"
           /\ \A p \in Players : Rejection(s, p) # "none"

\* The `answers` mapping of the payload in the run that differs from this
\* one only in the current question's correct_answer, which is c there: each
\* verdict is the one submit_answer gives the same submitted value.
TwinAnswers(s, c) ==
    LET q == current_entry.question
        values == IF s \in DOMAIN answer_values THEN answer_values[s] ELSE EmptyDict
    IN [p \in DOMAIN state(s).answers |->
          IF Question(q).scoring_type = "closest" \/ p \notin DOMAIN values
          THEN state(s).answers[p]
          ELSE BoolStr(Verdict([Question(q) EXCEPT !.correct_answer = c],
                               values[p]).is_correct)]

\* C21: in every state payload correct_answer is present iff revealed, and
\* revealed only when current_end <= now; and before current_end the payload
\* is the same in two runs that differ only in the question's correct_answer.
C21_NoAnswerLeakBeforeReveal ==
    \A s \in Sessions :
        state(s).question.id # "none"
        => /\ (state(s).question.correct_answer # Null) <=> state(s).question.revealed
           /\ state(s).question.revealed => current_end <= now
           /\ now < current_end
              => \A c \in AnswerValues : state(s).answers = TwinAnswers(s, c)

\* C22: state(session_id).stage is the current entry kind while that session
\* is live (and is the controller's active session) and null otherwise; for a
\* session that is finished or is not the active one neither a question nor
\* a quiz_intro payload is reported.
C22_StageNullUnlessLive ==
    \A s \in Sessions :
        IF db_sessions[s].status = "live" /\ s = active_session_id
        THEN state(s).stage = current_entry.kind
        ELSE /\ state(s).stage = "none"
             /\ state(s).question.id = "none"
             /\ state(s).quiz_intro = NoIndex

\* C23: in every state of a live session, a current question has
\* current_end = current_start + duration_seconds, and a current quiz_intro
\* has current_start and current_end both unset.
C23_StageTimes ==
    (active_session_id # "none" /\ db_sessions[active_session_id].status = "live")
    => /\ current_entry.kind = "question"
          => current_end = current_start + current_entry.duration_seconds
       /\ current_entry.kind = "quiz_intro"
          => current_start = NoTime /\ current_end = NoTime

\* No operation is in progress: every call has returned and every task is
\* asleep.
Quiescent ==
    /\ \A t \in TaskIds : task[t].pc \in {"idle", "sleep", "gap"}
    /\ \A c \in SubIds : sub[c].pc = "idle"

\* The closest-value question q of the timeline has been finalized.
IsFinalized(q) ==
    \/ current_entry.question = q /\ current_finalized
    \/ \E i \in 1..Len(timeline) : timeline[i].question = q /\ timeline[i].pos < current_index

\* The score awarded to player p for question q of session s: one point for
\* a correct exact answer, the closest-value score once q is finalized.
AwardFor(s, q, p) ==
    IF Question(q).scoring_type = "closest"
    THEN IF IsFinalized(q) /\ ParsedRows(s, q) # <<>>
         THEN DeltaOf(p, ParsedRows(s, q), q) ELSE 0
    ELSE IF \E i \in RowsOf(s, q, p) : db_answers[i].is_correct THEN Point ELSE 0

RECURSIVE SumOver(_, _)
SumOver(set, f) ==
    IF set = {} THEN 0
    ELSE LET x == CHOOSE y \in set : TRUE IN f[x] + SumOver(set \ {x}, f)

\* The awards of player p over the questions of session s.
AwardsOf(s, p) == SumOver(QuestionsOf(s), [q \in QuestionsOf(s) |-> AwardFor(s, q, p)])

\* C24: at every quiescent point each player's in-memory score equals the
\* sum of the scores awarded to the player per question since the session
\* started, and the players' scores add up to the awards of all players (so
\* the increments of a finalized question add up to its awards).
C24_ScoreIsSumOfAwards ==
    (Quiescent /\ active_session_id \in DOMAIN players)
    => LET s == active_session_id
           ps == DOMAIN players[s]
       IN /\ \A p \in ps : players[s][p].score = AwardsOf(s, p)
          /\ SumOver(ps, [p \in ps |-> players[s][p].score])
               = SumOver(ps, [p \in ps |-> AwardsOf(s, p)])

\* register_player(s, p) is called in this step for a player the store knows.
ReRegisters(s, p) ==
    /\ p \in DOMAIN db_players
    /\ db_players[p].session_id = s
    /\ s \in DOMAIN players'
    /\ p \in DOMAIN players'[s]
    /\ players'[s][p].connected
    /\ ~(s \in DOMAIN players /\ p \in DOMAIN players[s] /\ players[s][p].connected)
    /\ \A c \in SubIds : sub'[c] = sub[c]
    /\ task' = task

\* C25: register_player with a player_id that already has a record for the
\* session, in memory or in the store (also after the in-memory state was
\* lost), keeps the player's accumulated score: neither the in-memory nor the
\* persisted score is decreased or reset.
C25_ReRegisterKeepsScore ==
    [][\A s \in Sessions, p \in Players :
         ReRegisters(s, p)
         => /\ db_players'[p].score >= db_players[p].score
            /\ players'[s][p].score >= db_players[p].score
            /\ (s \in DOMAIN players /\ p \in DOMAIN players[s])
               => players'[s][p].score >= players[s][p].score]_vars

\* Player p of session s is disconnected in this step.
Disconnects(s, p) ==
    /\ s \in DOMAIN players /\ p \in DOMAIN players[s] /\ players[s][p].connected
    /\ s \in DOMAIN players' /\ p \in DOMAIN players'[s] /\ ~players'[s][p].connected

\* The players of s that are connected, after this step.
ConnectedAfter(s) == {p \in DOMAIN players'[s] : players'[s][p].connected}

\* C26: disconnect_player during a question changes only that player's
\* connected flag (answered set, answer_values, answer_results, scores and
\* SessionAnswer rows are unchanged), and from then on the player is not among
\* those who must answer: whenever an accepted answer is recorded and every
\* connected player has answered, fast-forward is started.
C26_DisconnectOnlyClearsFlag ==
    [][/\ \A s \in Sessions, p \in Players :
            Disconnects(s, p)
            => /\ UNCHANGED <<answers, answer_results, answer_values, closest_results,
                              db_answers, ctlVars, schVars, sub>>
               /\ players'[s][p].score = players[s][p].score
               /\ \A o \in DOMAIN players[s] \ {p} : players'[s][o] = players[s][o]
               /\ \A o \in DOMAIN db_players :
                      /\ db_players'[o].score = db_players[o].score
                      /\ o # p => db_players'[o] = db_players[o]
               /\ p \notin ConnectedAfter(s)
       /\ \A c \in SubIds :
            (/\ sub[c].pc = "sub_post" /\ sub'[c].pc = "idle"
             /\ active_session_id = sub[c].sid
             /\ current_entry.kind = "question"
             /\ sub[c].sid \in DOMAIN players /\ sub[c].sid \in DOMAIN answers'
             /\ ConnectedAfter(sub[c].sid) # {}
             /\ ConnectedAfter(sub[c].sid) \subseteq answers'[sub[c].sid])
            => \E t \in TimerIds : task'[t].pc = "ff_start"]_vars

\* A player who answered the current question is disconnected and keeps the
\* answer (answered set, value, row), and fast-forward was started once the
\* connected player had answered.
C26_DisconnectedKeepsAnswer ==
    /\ active_session_id = "A"
    /\ current_entry.kind = "question"
    /\ \E t \in TimerIds : task[t].pc = "ff_start" /\ task[t].trig = current_index
    /\ "A" \in DOMAIN players /\ "A" \in DOMAIN answers
    /\ \E p \in DOMAIN players["A"], o \in DOMAIN players["A"] :
          /\ ~players["A"][p].connected /\ p \in answers["A"]
          /\ "A" \in DOMAIN answer_values /\ p \in DOMAIN answer_values["A"]
          /\ RowsOf("A", current_entry.question, p) # {}
          /\ players["A"][o].connected /\ o \in answers["A"]

\* C27: an accepted answer to a question with answer_type numeric and
\* scoring_type exact is correct, and is awarded one point, if and only if
\* it equals question.correct_answer; otherwise it is incorrect and awarded 0.
C27_NumericExactByEquality ==
    \A c \in SubIds :
        (/\ sub[c].pc = "graded"
         /\ Question(sub[c].question).answer_type = "numeric"
         /\ Question(sub[c].question).scoring_type = "exact")
        => /\ sub[c].is_correct <=> sub[c].answer = Question(sub[c].question).correct_answer
           /\ sub[c].delta = IF sub[c].answer = Question(sub[c].question).correct_answer
                             THEN Point ELSE 0


\* Task t completes the finalization of its question in this step.
Finalizes(t) ==
    /\ task[t].pc = "fin_read"
    /\ task'[t].pc = task[t].cont

\* clamp(base + bonus, 0.0, 1.5) of a distance d, in half points.
ClampedAward(d, min_diff, range) ==
    LET base == IF range = 0 THEN Point
                ELSE Point - (Point * (d - min_diff)) \div range
        bonus == IF d = 0 THEN Point \div 2 ELSE 0
    IN Max(0, Min((3 * Point) \div 2, base + bonus))

\* C28: closest-value finalization adds to the score of each player whose
\* answer parses the clamped award of that answer's distance (an exact answer
\* is awarded exactly 1.5), and adds nothing to a player without a parsed
\* answer.
C28_ClosestAwardIsClamped ==
    [][\A t \in TaskIds, s \in Sessions :
         (Finalizes(t) /\ task[t].sid = s /\ s \in DOMAIN players)
         => LET q == task[t].fq
                parsed == ParsedRows(s, q)
                range == MaxDiff(parsed, q) - MinDiff(parsed, q)
            IN \A p \in DOMAIN players[s] :
                 LET mine == SelectSeq(parsed, LAMBDA i: db_answers[i].player_id = p)
                     award == players'[s][p].score - players[s][p].score
                 IN /\ mine = <<>> => award = 0
                    /\ \A k \in 1..Len(mine) :
                         /\ award = ClampedAward(Diff(mine[k], q), MinDiff(parsed, q), range)
                         /\ Diff(mine[k], q) = 0 => award = (3 * Point) \div 2]_vars


\* What the step adds to the in-memory score of player p of session s.
ScoreGain(s, p) == players'[s][p].score - players[s][p].score

\* C29: when a closest question is finalized, of any two players with
\* parsed answers the one with the lower-or-equal distance gains a
\* greater-or-equal score, and closest_results lists the entries in
\* ascending order of distance.
C29_ClosestMonotone ==
    [][\A t \in TaskIds, s \in Sessions :
         (Finalizes(t) /\ task[t].sid = s /\ s \in DOMAIN players)
         => LET q == task[t].fq
                parsed == ParsedRows(s, q)
            IN /\ \A i, j \in SeqRange(parsed) :
                    (/\ db_answers[i].player_id # db_answers[j].player_id
                     /\ db_answers[i].player_id \in DOMAIN players[s]
                     /\ db_answers[j].player_id \in DOMAIN players[s]
                     /\ Diff(i, q) <= Diff(j, q))
                    => ScoreGain(s, db_answers[i].player_id)
                         >= ScoreGain(s, db_answers[j].player_id)
               /\ parsed # <<>>
                  => \A k \in 1..(Len(closest_results'[s]) - 1) :
                       closest_results'[s][k].distance
                         <= closest_results'[s][k + 1].distance]_vars


\* Session s is on a closest question whose finalization has not run.
UnfinalizedClosest(s) ==
    /\ active_session_id = s
    /\ current_entry.kind = "question"
    /\ Question(current_entry.question).scoring_type = "closest"
    /\ ~current_finalized
    /\ <<s, current_entry.question>> \notin obs.finalized

\* C30: while a closest question has not been finalized, every player who
\* has answered it has the value null in the answers mapping of state() and
\* no score for it (it is the first question: no score at all), whether the
\* answer was accepted live or rehydrated by resume.
C30_UnfinalizedClosestIsNull ==
    \A s \in Sessions :
        (UnfinalizedClosest(s) /\ s \in DOMAIN answers)
        => \A p \in answers[s] :
             /\ p \in DOMAIN state(s).answers
             /\ state(s).answers[p] = "null"
             /\ p \in DOMAIN state(s).players => state(s).players[p].score = 0


\* The timer and fast-forward tasks that are neither cancelled nor finished.
LiveTimers == {t \in TimerIds : task[t].pc # "idle"}

\* Task t enters a new stage in this step (the last lines of _advance).
EntersStage(t) == task[t].pc = "adv_set" /\ current_entry' = task[t].entry

C35_LockHolderNeverWaits ==
    \A t \in TaskIds :
        lock = t => /\ task[t].pc # "wait_lock"
                    /\ \A i \in 1..Len(lockq) : lockq[i] # t


\* Some call is inside _advance (or in start, about to call it).
AdvanceInProgress ==
    \E t \in TaskIds :
        \/ task[t].pc \in {"adv_enter", "adv_inc", "adv_set", "adv_fin"}
        \/ task[t].pc = "fin_read" /\ task[t].cont = "adv_inc"

\* C36: whenever a session is active and no _advance is in progress,
\* current_index is within the timeline and current_entry is
\* timeline[current_index], also after a timer or fast-forward task was
\* cancelled while suspended inside _advance.
C36_CursorMatchesEntry ==
    (active_session_id # "none" /\ ~AdvanceInProgress)
    => /\ current_index >= 0
       /\ current_index < Len(timeline)
       /\ current_entry = At(timeline, current_index)


\* The keys of a per-session cache d of session s.
KeysIn(d, s) == IF s \in DOMAIN d THEN DOMAIN d[s] ELSE {}

\* Player p has a stored answer to the current question of session s.
StoredForCurrent(s, p) ==
    \E i \in 1..Len(db_answers) :
        /\ db_answers[i].session_id = s
        /\ db_answers[i].player_id = p
        /\ db_answers[i].question_id = current_entry.question

\* C37: the answer caches describe the current question only: the keys of
\* answer_results and of answer_values are players in the answered set of
\* the current question, and what they hold was submitted for that
\* question, also when the stage advanced while a submit_answer call was
\* suspended at the store.
C37_CachesOfCurrentQuestion ==
    \A s \in Sessions :
        /\ KeysIn(answer_results, s) \subseteq AnsweredIn(s)
        /\ KeysIn(answer_values, s) \subseteq AnsweredIn(s)
        /\ (active_session_id = s /\ current_entry.kind = "question")
           => \A p \in KeysIn(answer_results, s) \cup KeysIn(answer_values, s) :
                StoredForCurrent(s, p)


\* C38: whenever the payload of state() reports revealed = true for the
\* current question, its scores have been finalized: current_finalized is
\* true and, for a closest question with parseable answers, closest_results
\* is populated (also when the deadline passes under manual_override).
C38_RevealedImpliesFinalized ==
    \A s \in Sessions :
        (active_session_id = s /\ state(s).question.revealed)
        => /\ current_finalized
           /\ (FinalizeApplies(current_entry.question)
               /\ ParsedRows(s, current_entry.question) # <<>>)
              => state(s).closest_results # <<>>


\* A call made by the host (force_next, start or resume) takes a step.
HostCallStep ==
    \E t \in HostIds :
        /\ task[t].op \in {"force_next", "start", "resume"}
        /\ task[t].caller = "none"
        /\ task'[t] # task[t]

\* C39: while manual_override is true the stage changes only through an
\* explicit host call: a step that moves the cursor or the current entry of
\* the active session under the override is a step of a force_next, start or
\* resume called by the host, never of a fast-forward or timer task.
C39_ManualOnlyHostAdvances ==
    [][\A s \in Sessions :
         (/\ active_session_id = s
          /\ db_sessions[s].manual_override
          /\ db_sessions'[s].manual_override
          /\ \/ current_index' # current_index
             \/ current_entry' # current_entry)
         => HostCallStep]_vars


\* cancel(s) has returned for the active session s while no start or resume
\* was running, and none has been called since.
CancelledSince(s) ==
    /\ obs.cancelled = s
    /\ \A t \in TaskIds : task[t].op \notin {"start", "resume"}

\* The score of every player of session s, in memory and in the store.
ScoresOf(s) ==
    [memory |-> IF s \in DOMAIN players
                THEN [p \in DOMAIN players[s] |-> players[s][p].score] ELSE EmptyDict,
     stored |-> [p \in {x \in DOMAIN db_players : db_players[x].session_id = s}
                   |-> db_players[p].score]]

\* The answer caches of session s.
CachesOf(s) ==
    [answers |-> AnsweredIn(s), results |-> KeysIn(answer_results, s),
     values |-> ValuesIn(s),
     closest |-> IF s \in DOMAIN closest_results THEN closest_results[s] ELSE <<>>]

\* The reset route commits its own statements in this step.
ResetCommits == \E t \in AdminIds : task[t].pc = "reset_db" /\ task'[t].pc = "idle"

\* A call or task of the controller, or a submit_answer call, takes a step
\* (a player joining or leaving does not).
ControllerStep == task' # task \/ sub' # sub

\* C40: after cancel(session_id) has returned for the active session, and
\* until the next start or resume, no timer task is pending,
\* active_session_id and current_entry stay unset, and no player score,
\* answer cache or status of that session changes (but by the reset route's
\* own commit), also when cancel ran while an _advance, a reveal or a
\* submit_answer of the session was suspended.
C40_NothingRunsAfterCancel ==
    /\ [](\A s \in Sessions :
            CancelledSince(s)
            => /\ LiveTimers = {}
               /\ timer_task = "none"
               /\ active_session_id = "none"
               /\ current_entry = NoEntry)
    /\ [][\A s \in Sessions :
            (CancelledSince(s) /\ CancelledSince(s)' /\ ControllerStep /\ ~ResetCommits)
            => /\ ScoresOf(s)' = ScoresOf(s)
               /\ CachesOf(s)' = CachesOf(s)
               /\ db_sessions'[s].status = db_sessions[s].status]_vars


\* C33: scores_revealed can be true only while the session is finished: in
\* every state reached through start, resume, reset, reveal_scores and
\* force_next, a session whose flag is true has the status finished.
C33_RevealedOnlyWhenFinished ==
    \A s \in Sessions :
        (s \in DOMAIN scores_revealed /\ scores_revealed[s])
        => db_sessions[s].status = "finished"


\* The active session is on the question entry at position k.
OnQuestion(k) ==
    /\ active_session_id # "none"
    /\ current_entry.kind = "question"
    /\ current_entry.pos = k

\* C34: under fair scheduling a question stage entered with manual_override
\* false is eventually left (the clock reaching its deadline and gap): the
\* session moves to another stage or finishes, and a closest question is
\* left only after its scores have been finalized.
C34_QuestionEventuallyLeft ==
    /\ \A k \in 1..Len(_build_timeline("A")) - 1 :
         (OnQuestion(k) /\ current_start + Duration + Gap <= MaxLiveTime)
           ~> ~OnQuestion(k)
    /\ [][\A k \in 1..Len(_build_timeline("A")) - 1 :
            (/\ OnQuestion(k)
             /\ ~OnQuestion(k)'
             /\ FinalizeApplies(current_entry.question))
            => <<active_session_id, current_entry.question>> \in obs'.finalized]_vars

\* Task t returns from broadcast_state.
BroadcastReturns(t) ==
    /\ task[t].pc = "bc_send"
    /\ task'[t].pc \notin {"bc_send", "bc_wait"}

\* C32: broadcasting never blocks the controller: a task whose send to an
\* observer sink never completes does not hold the controller lock (so the
\* calls and the timer waiting for the lock still complete), and when a
\* broadcast returns every sink whose send raised has been dropped and
\* every other sink of the session has received the payload.
C32_BroadcastNeverBlocks ==
    /\ [](\A t \in TaskIds : task[t].pc = "bc_wait" => lock # t)
    /\ [][\A t \in TaskIds, s \in Sessions :
            (BroadcastReturns(t) /\ task[t].sid = s)
            => LET socks == SocketsOf(s)
                   w == socks[Len(socks)]
                   kept == Range(player_sockets'[s])
               IN /\ kept \subseteq task[t].sent \cup {w}
                  /\ kept \cap task[t].drop = {}
                  /\ Range(socks) \ kept \subseteq task[t].drop \cup {w}]_vars

====
